---- MODULE Spec2Model ----
(***************************************************************************)
(* Retrieval-augmented question answering core of the literature           *)
(* assistant: circuit breakers around the embedding and generation         *)
(* services, the degradation chain of answer(), the caches with their key  *)
(* construction and statistics, the context window of a conversation, the  *)
(* turn indices of a session, retrieval with its fusion of two searches,   *)
(* prompt assembly, the question endpoint with its validation and stage    *)
(* order, the citations of a processed answer, and the web client: the     *)
(* registration form, the useApi hook, the deletion of a session, the      *)
(* AuthProvider with the pages that redirect to the login page, the        *)
(* join-group dialog, and the questions of the assistant panel.            *)
(***************************************************************************)
EXTENDS Integers, Sequences, FiniteSets, TLC

(***************************************************************************)
(* Bounds of the model.                                                    *)
(***************************************************************************)
\* seconds added to the clock by one Tick
TickStep == 30
\* last clock value explored
MaxTime == 120
\* number of concurrent callers of the breakers
NumCallers == 2
\* seconds added to the clock by one CacheTick
CacheTickStep == 900
\* last clock value explored by CacheTick
MaxCacheTime == 2000
\* configured capacity of the answer cache (Config.RAG_CACHE_ANSWER_MAX_SIZE)
RAG_CACHE_ANSWER_MAX_SIZE == 2
\* number of cache lookups explored
MaxGets == 2
\* configured capacity of the embedding cache (Config.RAG_CACHE_EMBEDDING_MAX_SIZE)
RAG_CACHE_EMBEDDING_MAX_SIZE == 2
\* capacity the backend under test is constructed with
MemMaxSize == 2
\* histories of up to this many turns are arbitrary, longer ones are uniform
MaxVariedTurns == 3
\* longest session history explored
MaxTurns == 12
\* turns appended to one session of the conversation store
MaxSessionTurns == 3
\* largest top_k asked of retrieve_chunks
MaxTopK == 2
\* longest candidate list given to prompt assembly
MaxCandidates == 3
\* largest max_tokens given to prompt assembly
MaxPromptTokens == 8
\* most reference markers in a generated text
MaxMarkers == 2
\* most requests sent by the registration form
MaxPosts == 2
\* calls of execute on one useApi hook
MaxExecuteCalls == 3

\* the external dependencies that are guarded by a breaker each
Deps == {"embedding", "generation"}

Min(a, b) == IF a <= b THEN a ELSE b

(***************************************************************************)
(* Circuit breaker.                                                        *)
(***************************************************************************)
\* CircuitBreaker.__init__ defaults
failure_threshold == 5
recovery_timeout == 60
\* last_failure_time = None
NoTime == -1

\* the constructor with failure_count started at one
CircuitBreakerInitOffByOne(ft, rt) ==
    [failure_count     |-> 1,
     failure_threshold |-> ft,
     recovery_timeout  |-> rt,
     state             |-> "CLOSED",
     last_failure_time |-> NoTime]

\* the constructor with recovery_timeout assigned from the wrong argument
CircuitBreakerInitCopyPaste(ft, rt) ==
    [failure_count     |-> 0,
     failure_threshold |-> ft,
     recovery_timeout  |-> ft,
     state             |-> "CLOSED",
     last_failure_time |-> NoTime]

\* CircuitBreaker.__init__(failure_threshold, recovery_timeout)
CircuitBreakerInit(ft, rt) ==
    [failure_count     |-> 0,
     failure_threshold |-> ft,
     recovery_timeout  |-> rt,
     state             |-> "CLOSED",
     last_failure_time |-> NoTime]

\* time since the last recorded failure of breaker b at time t
Elapsed(b, t) == t - b.last_failure_time

\* Admission that lets a second caller through while a trial is in flight
AdmissionNoTrialGuard(b, t) ==
    IF b.state = "CLOSED" THEN "pass"
    ELSE IF b.last_failure_time # NoTime /\ Elapsed(b, t) >= b.recovery_timeout
         THEN "trial"
         ELSE "reject"

\* The decision call() takes on entry, under the breaker's lock:
\*   Closed pass the call through; Open reject it until recovery_timeout has
\*   elapsed, then let one trial through; HalfOpen (trial in flight) reject.
Admission(b, t) ==
    IF b.state = "CLOSED" THEN "pass"
    ELSE IF b.state = "OPEN"
         THEN IF b.last_failure_time # NoTime
                 /\ Elapsed(b, t) >= b.recovery_timeout
              THEN "trial"
              ELSE "reject"
         ELSE "reject"

\* the breaker after the admission decision: a trial moves it to HalfOpen
BeforeCall(b, t) ==
    IF Admission(b, t) = "trial" THEN [b EXCEPT !.state = "HALF_OPEN"] ELSE b

\* a result is stale when a call admitted in Closed reports after the breaker
\* has left Closed: it is the trial, not that call, that decides then
Stale(b, kind) == kind = "pass" /\ b.state # "CLOSED"

\* OnSuccess that closes the breaker on any success, the stale ones included
OnSuccessAlwaysCloses(b, kind) ==
    [b EXCEPT !.state = "CLOSED", !.failure_count = 0]

\* success of a call: resets the counter; a successful trial closes the breaker
OnSuccess(b, kind) ==
    IF Stale(b, kind) THEN b
    ELSE [b EXCEPT !.state = "CLOSED", !.failure_count = 0]

\* OnFailure whose failed trial reopens the breaker without restarting the timeout
OnFailureNoRestart(b, kind, t) ==
    IF Stale(b, kind) THEN b
    ELSE IF kind = "trial"
         THEN [b EXCEPT !.failure_count = @ + 1, !.state = "OPEN"]
         ELSE [b EXCEPT !.failure_count = @ + 1,
                        !.last_failure_time = t,
                        !.state = IF b.failure_count + 1 >= b.failure_threshold
                                  THEN "OPEN" ELSE "CLOSED"]

\* OnFailure that records a failure twice
OnFailureTwice(b, kind, t) ==
    IF Stale(b, kind) THEN b
    ELSE LET n == b.failure_count + 2
         IN [b EXCEPT !.failure_count = n,
                      !.last_failure_time = t,
                      !.state = IF kind = "trial" \/ n >= b.failure_threshold
                                THEN "OPEN" ELSE "CLOSED"]

\* failure (or timeout) of a call: increments the counter and stamps the time;
\* the threshold-th consecutive failure opens the breaker, a failed trial reopens it
OnFailure(b, kind, t) ==
    IF Stale(b, kind) THEN b
    ELSE LET n == b.failure_count + 1
         IN [b EXCEPT !.failure_count = n,
                      !.last_failure_time = t,
                      !.state = IF kind = "trial" \/ n >= b.failure_threshold
                                THEN "OPEN" ELSE "CLOSED"]

(***************************************************************************)
(* Cache keys.  Text is a sequence of character codes.  md5 is taken to be *)
(* free of collisions on the inputs of the model: a digest is represented  *)
(* by its input together with the number of hex digits that are kept.      *)
(***************************************************************************)
\* s[:n]
Take(s, n) == SubSeq(s, 1, Min(n, Len(s)))

\* hashlib.md5(x.encode('utf-8')).hexdigest()
Md5Hex(x) == [md5 |-> x, digits |-> 32]

\* h[:n] of a hex digest
HexPrefix(h, n) == [h EXCEPT !.digits = Min(@, n)]

\* characters of a chunk's text that enter the context hash
context_text_prefix == 100

\* CacheKeyGenerator.context_hash
context_hash(chunks) ==
    HexPrefix(Md5Hex([i \in 1..Len(chunks) |->
                          Take(chunks[i].text, context_text_prefix)]), 16)

\* CacheKeyGenerator.answer_key: f"ans:{literature_id}:{question_hash}:{context_hash[:8]}"
answer_key(question, literature_id, ctx_hash) ==
    <<"ans", literature_id, HexPrefix(Md5Hex(question), 8), HexPrefix(ctx_hash, 8)>>

\* the model parameter that embedding_key falls back to
default_model == "default"

\* CacheKeyGenerator.embedding_key: f"emb:{model}:{text_hash}"
embedding_key(text, model) ==
    <<"emb", model, HexPrefix(Md5Hex(text), 12)>>

(***************************************************************************)
(* MemoryCacheBackend over cachetools.TTLCache.  A cache is the sequence   *)
(* of its entries, least recently used first.                              *)
(***************************************************************************)
\* Config.RAG_CACHE_TTL
RAG_CACHE_TTL == 3600

\* CacheManager.__init__: answer_cache ttl
answer_cache_ttl == RAG_CACHE_TTL \div 2

\* positions of key among the entries that have not expired at time t
LiveAt(cache, key, t) ==
    {i \in 1..Len(cache) : cache[i].key = key /\ t < cache[i].expires}

\* TTLCache.expire(t): drop the expired entries
Expire(cache, t) ==
    LET fresh(e) == t < e.expires IN SelectSeq(cache, fresh)

\* Python's None as a cache result
None == [none |-> TRUE]

\* MemoryCacheBackend.get, the value: None for a missing or expired key
CacheGetValue(cache, key, t) ==
    IF LiveAt(cache, key, t) = {} THEN None
    ELSE cache[CHOOSE i \in LiveAt(cache, key, t) : TRUE].value

\* MemoryCacheBackend.get that leaves the order of the entries alone
CacheGetNoTouch(cache, key, t) == cache

\* MemoryCacheBackend.get, the cache: a hit makes the entry the most recently used
CacheGetTouch(cache, key, t) ==
    IF LiveAt(cache, key, t) = {} THEN cache
    ELSE LET i == CHOOSE j \in LiveAt(cache, key, t) : TRUE
             other(e) == e.key # key
         IN SelectSeq(cache, other) \o <<cache[i]>>

\* the cache after the value object held for key was changed in place
CacheMutate(cache, key, value) ==
    [i \in 1..Len(cache) |->
        IF cache[i].key = key THEN [cache[i] EXCEPT !.value = value] ELSE cache[i]]

\* MemoryCacheBackend.set that keeps the value already held for the key
CacheSetKeepsOld(cache, key, value, t, maxsize, ttl) ==
    LET live == Expire(cache, t)
        isKey(e) == e.key = key
        other(e) == e.key # key
        others == SelectSeq(live, other)
        room == IF Len(others) = Len(live) /\ Len(live) >= maxsize
                THEN SubSeq(others, Len(live) - maxsize + 2, Len(others))
                ELSE others
        kept == IF Len(others) = Len(live) THEN value
                ELSE SelectSeq(live, isKey)[1].value
    IN room \o <<[key |-> key, value |-> kept, expires |-> t + ttl]>>

\* MemoryCacheBackend.set: self.cache[key] = value.  Expired entries go
\* first; a new key in a full cache evicts the least recently used entry;
\* the entry lives for the cache's ttl from now.
CacheSet(cache, key, value, t, maxsize, ttl) ==
    LET live == Expire(cache, t)
        other(e) == e.key # key
        others == SelectSeq(live, other)
        room == IF Len(others) = Len(live) /\ Len(live) >= maxsize
                THEN SubSeq(others, Len(live) - maxsize + 2, Len(others))
                ELSE others
    IN room \o <<[key |-> key, value |-> value, expires |-> t + ttl]>>

\* Optional[int]: None, or an integer
NoTtl == <<>>
SomeTtl(n) == <<n>>

\* MemoryCacheBackend.set that evicts the most recently used entry
MemorySetEvictsNewest(cache, key, value, ttl, t, maxsize, cache_ttl) ==
    LET live == Expire(cache, t)
        other(e) == e.key # key
        others == SelectSeq(live, other)
        room == IF Len(others) = Len(live) /\ Len(live) >= maxsize
                THEN SubSeq(others, 1, maxsize - 1)
                ELSE others
    IN room \o <<[key |-> key, value |-> value, expires |-> t + cache_ttl]>>

\* MemoryCacheBackend.set(key, value, ttl): the ttl argument is not used
MemorySet(cache, key, value, ttl, t, maxsize, cache_ttl) ==
    CacheSet(cache, key, value, t, maxsize, cache_ttl)

\* MemoryCacheBackend.delete: self.cache.pop(key, None)
CacheDelete(cache, key, t) ==
    IF LiveAt(cache, key, t) = {} THEN cache
    ELSE LET other(e) == e.key # key IN SelectSeq(cache, other)

\* d[k] = v on a dict
Put(d, k, v) == [x \in DOMAIN d \cup {k} |-> IF x = k THEN v ELSE d[x]]

\* CacheManager.set_answer: the value that is stored
CachedAnswer(answer_data, ctx_hash, t) ==
    [answer_data EXCEPT !.metadata =
        Put(Put(@, "cached_at", t), "context_hash", ctx_hash)]

\* CacheManager.get_answer: the value that is returned on a hit
ReturnedAnswer(cached, t) ==
    [cached EXCEPT !.metadata =
        Put(Put(@, "cache_hit", TRUE), "retrieved_at", t)]


VARIABLES
    now,            \* the clock, in seconds
    cb,             \* Deps -> breaker
    inflight,       \* Deps -> number of calls inside the dependency, by admission kind
    lastAdmission,  \* Deps -> the decision taken for the latest call()
    consec,         \* Deps -> failures recorded since the last recorded success
    openedAt,       \* Deps -> time the breaker last entered Open
    answer_cache,   \* CacheManager.answer_cache: entries, least recently used first
    stats,          \* CacheManager.stats
    lastSet,        \* the latest set_answer: its request, the data given, the time
    lastGet,        \* the latest get_answer after it: its request, the value returned
    areq,           \* the answer() invocation in progress
    response,       \* the response of the latest finished answer()
    route,          \* how that response was produced, and what the cache held then
    embedding_cache,\* CacheManager.embedding_cache: entries, least recently used first
    embedding_model,\* the model the embedding service generates vectors with
    lastEmbedding,  \* the latest generate_embedding: text, model in use, vector returned
    mem,            \* a MemoryCacheBackend: entries, least recently used first
    mem_used,       \* keys of mem in the order of their latest use, oldest first
    mem_op,         \* the latest operation on mem
    lastMemSet,     \* the latest set on mem: key, ttl asked for, time
    lastMemGet,     \* the latest get on mem after it: key, value returned, time
    history,        \* the turns of a session, oldest first
    window,         \* the ContextWindow under construction or returned last
    sessions,       \* the conversation store: session -> its turns, oldest first
    turnCount,      \* the conversation store: session -> ConversationSession.turnCount
    lock,           \* session -> the appendTurn call that holds the session, if any
    clients,        \* client -> aiAssistant state and the sendAIQuestion in flight
    retrieval,      \* the retrieve_chunks call in progress or finished last
    built,          \* the latest optimize_prompt_length call: arguments and result
    qa,             \* the POST /ai/ask request in progress or finished last
    cited,          \* the answer being post-processed, stored as a turn and shown
    formData,       \* Register: the values of the form fields
    regError,       \* Register: the error shown
    regLoading,     \* Register: isLoading
    posted,         \* Register: the bodies sent to POST /api/auth/register
    regPage,        \* the page shown: the form or /login
    api,            \* useApi: data, error and status
    executions,     \* useApi: the execute calls, how apiFunction settled and how they ended
    aiAssistant,    \* the aiAssistant state of the literature page
    serverSessions, \* the sessions the server holds for the document
    deletion,       \* the deleteConversation call in progress or finished last
    storage,        \* localStorage: the 'token' and 'refresh_token' items
    auth,           \* AuthProvider: isAuthenticated and isLoading
    authRoute,      \* the route shown
    pageKind,       \* the protected page that is mounted
    providerEffect, \* AuthProvider's initial effect is still to run
    pageEffects,    \* the page's effect runs still to come, with the values they closed over
    lastAuthCall,   \* the latest of login and logout
    joinDialog,     \* JoinGroupDialog: open, inviteCode, groupInfo, loading, joining, error
    lookups,        \* GET /groups/info requests without a response yet
    lookupsSent,    \* how many lookups were sent
    joinRequest,    \* the POST /groups/join-by-code sent last
    isAIThinking,   \* the literature page: isAIThinking
    asks,           \* the askAI calls of sendAIQuestion that have not finished
    asksSent,       \* how many askAI requests were sent
    histories,      \* getConversationHistory requests without a response yet
    historiesSent,  \* how many getConversationHistory requests were sent
    globalAsk       \* whether handleGlobalAIQuestion awaits askMultipleLiterature

cbVars == <<cb, inflight, lastAdmission, consec, openedAt>>

cacheVars == <<answer_cache, stats, lastSet, lastGet>>

ansVars == <<areq, response, route>>

embVars == <<embedding_cache, embedding_model, lastEmbedding>>

memVars == <<mem, mem_used, mem_op, lastMemSet, lastMemGet>>

\* the components that the breakers, the answer cache and answer() leave alone
convVars == <<history, window>>

turnVars == <<sessions, turnCount, lock, clients>>

retrVars == <<retrieval>>

\* prompt assembly, the question endpoint, post-processing, and the web client
promptVars == <<built>>

qaVars == <<qa>>

citeVars == <<cited>>

regVars == <<formData, regError, regLoading, posted, regPage>>

apiVars == <<api, executions>>

delVars == <<aiAssistant, serverSessions, deletion>>

authVars == <<storage, auth, authRoute, pageKind, providerEffect, pageEffects, lastAuthCall>>

joinVars == <<joinDialog, lookups, lookupsSent, joinRequest>>

askVars == <<isAIThinking, asks, asksSent, histories, historiesSent, globalAsk>>

moreVars == <<promptVars, qaVars, citeVars, regVars, apiVars, delVars, authVars, joinVars, askVars>>

baseVars == <<cbVars, cacheVars, ansVars, embVars, memVars, convVars, turnVars, retrVars>>

notPromptVars == <<baseVars, qaVars, citeVars, regVars, apiVars, delVars, authVars, joinVars, askVars>>
notQaVars == <<baseVars, promptVars, citeVars, regVars, apiVars, delVars, authVars, joinVars, askVars>>
notCiteVars == <<baseVars, promptVars, qaVars, regVars, apiVars, delVars, authVars, joinVars, askVars>>
notRegVars == <<baseVars, promptVars, qaVars, citeVars, apiVars, delVars, authVars, joinVars, askVars>>
notApiVars == <<baseVars, promptVars, qaVars, citeVars, regVars, delVars, authVars, joinVars, askVars>>
notDelVars == <<baseVars, promptVars, qaVars, citeVars, regVars, apiVars, authVars, joinVars, askVars>>
notAuthVars == <<baseVars, promptVars, qaVars, citeVars, regVars, apiVars, delVars, joinVars, askVars>>
notJoinVars == <<baseVars, promptVars, qaVars, citeVars, regVars, apiVars, delVars, authVars, askVars>>
notAskVars == <<baseVars, promptVars, qaVars, citeVars, regVars, apiVars, delVars, authVars, joinVars>>

otherVars == <<embVars, memVars, convVars, turnVars, retrVars, moreVars>>

\* what the operations of one component leave alone in the other components
notEmbVars == <<cbVars, ansVars, memVars, convVars, turnVars, retrVars, moreVars>>
notMemVars == <<cbVars, cacheVars, ansVars, embVars, convVars, turnVars, retrVars, moreVars>>
notConvVars == <<cbVars, cacheVars, ansVars, embVars, memVars, turnVars, retrVars, moreVars>>
notTurnVars == <<cbVars, cacheVars, ansVars, embVars, memVars, convVars, retrVars, moreVars>>
notRetrVars == <<cbVars, cacheVars, ansVars, embVars, memVars, convVars, turnVars, moreVars>>

vars == <<now, cbVars, cacheVars, ansVars, otherVars>>

Kinds == {"pass", "trial"}

\* number of callers that are inside call() on some breaker
Busy == inflight["embedding"]["pass"] + inflight["embedding"]["trial"]
        + inflight["generation"]["pass"] + inflight["generation"]["trial"]

CBInit ==
    /\ cb = [d \in Deps |-> CircuitBreakerInit(failure_threshold, recovery_timeout)]
    /\ inflight = [d \in Deps |-> [k \in Kinds |-> 0]]
    /\ lastAdmission = [d \in Deps |-> "none"]
    /\ consec = [d \in Deps |-> 0]
    /\ openedAt = [d \in Deps |-> NoTime]

(***************************************************************************)
(* Inputs of the cache operations.                                         *)
(***************************************************************************)
Questions == {"What method was used?"}

Literature == {"lit-1"}

\* text that opens several chunks of a document (a running header)
Header == [i \in 1..context_text_prefix |-> 7]

ChunkA == [literature_id |-> "lit-1", chunk_index |-> 1, text |-> Header \o <<1>>]
ChunkB == [literature_id |-> "lit-1", chunk_index |-> 2, text |-> Header \o <<2>>]
ChunkC == [literature_id |-> "lit-1", chunk_index |-> 3, text |-> <<3, 3>>]

ChunkD == [literature_id |-> "lit-1", chunk_index |-> 4, text |-> <<4>>]

\* the chunk lists that retrieval hands to the cache, by name
Contexts == {"A", "B", "C", "D"}

context_chunks(c) ==
    IF c = "empty" THEN <<>>
    ELSE IF c = "A" THEN <<ChunkA>>
    ELSE IF c = "B" THEN <<ChunkB>>
    ELSE IF c = "C" THEN <<ChunkC>>
    ELSE <<ChunkD>>

\* the identifiers of the chunks of a list
ChunkIds(chunks) == [i \in 1..Len(chunks) |-> chunks[i].chunk_index]

\* the text the generation service returns for a prompt built from the
\* question and the chunks
GeneratedText(question, chunks) == <<"answer", question, ChunkIds(chunks)>>

\* the structured answer of a generation over chunks
AnswerData(a, chunks) ==
    [answer     |-> a,
     sources    |-> ChunkIds(chunks),
     confidence |-> 90,
     metadata   |-> [processing_time |-> 2]]

NoSet == [valid |-> FALSE]
NoGet == [valid |-> FALSE]

\* CacheManager.__init__
CacheInit ==
    /\ answer_cache = <<>>
    /\ stats = [hits |-> 0, misses |-> 0, sets |-> 0]
    /\ lastSet = NoSet
    /\ lastGet = NoGet

NoRequest == [pc |-> "idle"]
NoResponse == [valid |-> FALSE]
NoRoute == [path |-> "none", hadCached |-> FALSE, retrieved |-> FALSE]

AnswerInit ==
    /\ areq = NoRequest
    /\ response = NoResponse
    /\ route = NoRoute

(***************************************************************************)
(* Inputs and initial state of the embedding cache and of the backend.     *)
(***************************************************************************)
EmbeddingTexts == {"What method was used?", "Which dataset was used?"}

\* the models the embedding service can be configured with
EmbeddingModels == {"text-embedding-ada-002", "text-embedding-004"}

\* the vector the embedding service computes for a text with a model
EmbeddingVector(model, text) == [model |-> model, of |-> text]

NoEmbedding == [valid |-> FALSE]

EmbeddingInit ==
    /\ embedding_cache = <<>>
    /\ embedding_model = "text-embedding-ada-002"
    /\ lastEmbedding = NoEmbedding

MemKeys == {"k1", "k2", "k3", "k4"}

\* the ttl arguments given to set
TtlArgs == {NoTtl, SomeTtl(900), SomeTtl(3600)}

\* the value written by a set of key at time t
MemValue(key, t) == [written |-> key, at |-> t]

NoMemSet == [valid |-> FALSE]
NoMemGet == [valid |-> FALSE]

MemInit ==
    /\ mem = <<>>
    /\ mem_used = <<>>
    /\ mem_op = [op |-> "init"]
    /\ lastMemSet = NoMemSet
    /\ lastMemGet = NoMemGet

(***************************************************************************)
(* Conversation store: the context window of a session.                    *)
(***************************************************************************)
\* ConversationManager.max_history_turns: turns retained verbatim at first
max_history_turns == 10

\* token estimates of a turn
TurnTokens == {1, 2, 3}

\* the token budgets asked for
TokenBudgets == {0, 2, 3, 5, 8, 21}

\* entities of the older turns that the topic summary names at most
summary_entity_cap == 2

RECURSIVE SumTokens(_)
\* token estimate of a sequence of turns
SumTokens(turns) ==
    IF turns = <<>> THEN 0 ELSE Head(turns).tokens + SumTokens(Tail(turns))

\* number of the turns that carry a salient entity
EntityCount(turns) == Cardinality({i \in 1..Len(turns) : turns[i].entity})

\* steps 2 and 3: the older turns and their entities collapsed into a short
\* summary, a sequence of words; nothing to collapse gives the empty summary
BuildSummary(older) ==
    IF older = <<>> THEN <<>>
    ELSE <<"earlier">> \o [i \in 1..Min(summary_entity_cap, EntityCount(older)) |-> "entity"]

\* step 4: estimatedTokenCount of retained turns and summary
EstimateTokens(recentTurns, topicSummary) ==
    SumTokens(recentTurns) + Len(topicSummary)

\* an estimate that is taken to be within a budget one token too early
WithinBudgetOffByOne(estimate, budget) == estimate <= budget + 1

\* step 4: is the estimate within the budget
WithinBudget(estimate, budget) == estimate <= budget

\* a loop that drops the newest retained turn
DropNewest(recentTurns) == SubSeq(recentTurns, 1, Len(recentTurns) - 1)

\* a loop that drops no turn
DropNothing(recentTurns) == recentTurns

\* step 4: drop the oldest retained turn
DropOldest(recentTurns) == Tail(recentTurns)

\* the last k of the first n turns
RecentOf(turns, n, k) == SubSeq(turns, n - k + 1, n)

\* the first n turns without their last k
OlderOf(turns, n, k) == SubSeq(turns, 1, n - k)

NoWindow == [pc |-> "none"]

ConversationInit ==
    /\ history = <<>>
    /\ window = NoWindow

(***************************************************************************)
(* Conversation store and its clients: sessions, turns, turn indices.      *)
(***************************************************************************)
SessionIds == {"s1", "s2"}

\* the pages that show the assistant of one user on one document
Clients == {"tabA", "tabB"}

\* currentSessionId: null
NoSession == "null"

\* getOrCreateSession(userId, documentId): the active session of the pair
ActiveSession == "s1"

NoCall == [pc |-> "idle"]

\* the session a question sent with session_id is appended to
TargetSession(session_id) ==
    IF session_id = NoSession THEN ActiveSession ELSE session_id

\* sendAIQuestion calls that are on their way to session s or hold it
CallsOn(s) ==
    {c \in Clients : clients[c].call.pc \in {"sent", "locked", "read"}
                     /\ TargetSession(clients[c].call.session_id) = s}

TurnStoreInit ==
    /\ sessions = [s \in SessionIds |-> <<>>]
    /\ turnCount = [s \in SessionIds |-> 0]
    /\ lock = [s \in SessionIds |-> "free"]
    /\ clients = [c \in Clients |-> [currentSessionId |-> NoSession,
                                     conversation |-> <<>>,
                                     call |-> NoCall]]

(***************************************************************************)
(* Retrieval: the chunk store, the two searches and their fusion.  Scores  *)
(* are normalized scores in percent, weights are tenths.                   *)
(***************************************************************************)
\* the chunks of the documents of the vector store
ChunkStore ==
    {[literature_id |-> "lit-1", chunk_index |-> 1],
     [literature_id |-> "lit-1", chunk_index |-> 2],
     [literature_id |-> "lit-1", chunk_index |-> 3],
     [literature_id |-> "lit-2", chunk_index |-> 1]}

RetrievalDocs == {"lit-1", "lit-2"}

TopKs == 1..MaxTopK

\* normalized scores
Scores == {0, 50, 100}

\* retrieve_chunks: vector search at top_k*2
rough_breadth == 2

\* fusion weights of the vector and of the keyword score
vector_weight == 7
keyword_weight == 3

\* a search that looks at the chunks of every document
Unscoped(literature_id) == ChunkStore

\* the chunks a search of one document looks at
Scoped(literature_id) == {c \in ChunkStore : c.literature_id = literature_id}

\* a vector search at half of top_k
RoughKHalved(top_k) == top_k \div 2

\* the breadth of the vector search of retrieve_chunks
RoughK(top_k) == top_k * rough_breadth

\* the ranked lists of m distinct chunks of a set, best first
RankedLists(chunks, m) ==
    {r \in [1..m -> [chunk : chunks, score : Scores]] :
        /\ \A i, j \in 1..m : i # j => r[i].chunk # r[j].chunk
        /\ \A i \in 1..(m - 1) : r[i].score >= r[i + 1].score}

\* vector_search(question_embedding, k): the k nearest chunks of the document
VectorSearchResults(literature_id, k) ==
    RankedLists(Scoped(literature_id), Min(k, Cardinality(Scoped(literature_id))))

\* keyword_search(keywords): the chunks of the document that match, ranked
KeywordSearchResults(literature_id) ==
    UNION {RankedLists(Scoped(literature_id), m) :
              m \in 0..Cardinality(Scoped(literature_id))}

\* the chunks of a ranked list
ChunksOf(results) == {results[i].chunk : i \in 1..Len(results)}

\* the score of a chunk in a ranked list, 0 when it is not listed
ScoreIn(results, chunk) ==
    IF chunk \in ChunksOf(results)
    THEN results[CHOOSE i \in 1..Len(results) : results[i].chunk = chunk].score
    ELSE 0

\* a fused score that leaves the keyword score out
FusedScoreVectorOnly(vector_results, keyword_results, chunk) ==
    vector_weight * ScoreIn(vector_results, chunk)

\* fusion: weighted sum of the normalized vector and keyword scores
FusedScore(vector_results, keyword_results, chunk) ==
    vector_weight * ScoreIn(vector_results, chunk)
        + keyword_weight * ScoreIn(keyword_results, chunk)

\* fusion that keeps the chunks of the vector path only
FusedChunksVectorPath(vector_results, keyword_results) == ChunksOf(vector_results)

\* fusion: the candidates of both paths, merged by chunk identity
FusedChunks(vector_results, keyword_results) ==
    ChunksOf(vector_results) \cup ChunksOf(keyword_results)

\* rerank order: higher fused score first, ties by document ordinal
RanksBefore(a, b) ==
    \/ a.fusedScore > b.fusedScore
    \/ /\ a.fusedScore = b.fusedScore
       /\ \/ a.chunk.chunk_index < b.chunk.chunk_index
          \/ /\ a.chunk.chunk_index = b.chunk.chunk_index
             /\ a.chunk.literature_id = "lit-1" /\ b.chunk.literature_id # "lit-1"

\* merge_and_rerank(vector_results, keyword_results)
merge_and_rerank(vector_results, keyword_results) ==
    LET candidates ==
            {[chunk |-> c,
              vectorScore |-> ScoreIn(vector_results, c),
              lexicalScore |-> ScoreIn(keyword_results, c),
              fusedScore |-> FusedScore(vector_results, keyword_results, c)] :
                c \in FusedChunks(vector_results, keyword_results)}
        n == Cardinality(candidates)
    IN CHOOSE merged \in [1..n -> candidates] :
          \A i, j \in 1..n : i < j => RanksBefore(merged[i], merged[j])

NoRetrieval == [pc |-> "none"]

RetrievalInit == retrieval = NoRetrieval

(***************************************************************************)
(* Inputs and initial state of prompt assembly.                            *)
(***************************************************************************)
\* the tokens of the fixed part of the prompt
base_prompt_tokens == 2

\* candidate chunks: a relevance score and a text (one element per token)
PromptChunks ==
    { [chunk_index |-> 1, relevance_score |-> 90, text |-> <<1, 1>>],
      [chunk_index |-> 2, relevance_score |-> 70, text |-> <<2>>],
      [chunk_index |-> 3, relevance_score |-> 70, text |-> <<3, 3, 3>>],
      [chunk_index |-> 4, relevance_score |-> 40, text |-> <<4>>] }

\* the candidate lists: up to MaxCandidates different chunks in any order
CandidateLists ==
    UNION { { c \in [1..n -> PromptChunks] :
                \A i, j \in 1..n : i # j => c[i] # c[j] } : n \in 0..MaxCandidates }

MaxTokenValues == 0..MaxPromptTokens

estimate_tokens(text) == Len(text)

\* sorted(context_chunks, key=relevance_score, reverse=True): a stable sort,
\* chunks of equal score keep the order they came in
RECURSIVE sort_by_relevance_score(_)
sort_by_relevance_score(chunks) ==
    IF chunks = <<>> THEN <<>>
    ELSE LET best == CHOOSE i \in 1..Len(chunks) :
                        \A j \in 1..Len(chunks) :
                           \/ chunks[j].relevance_score < chunks[i].relevance_score
                           \/ /\ chunks[j].relevance_score = chunks[i].relevance_score
                              /\ i <= j
             rest == [k \in 1..(Len(chunks) - 1) |->
                         IF k < best THEN chunks[k] ELSE chunks[k + 1]]
         IN <<chunks[best]>> \o sort_by_relevance_score(rest)

\* the loop of optimize_prompt_length over the sorted chunks: a chunk is
\* appended while it fits, the first that does not fit ends the loop
RECURSIVE SelectChunks(_, _, _)
SelectChunks(sorted_chunks, current_tokens, max_tokens) ==
    IF sorted_chunks = <<>> THEN <<>>
    ELSE LET chunk == Head(sorted_chunks)
             chunk_tokens == estimate_tokens(chunk.text)
         IN IF current_tokens + chunk_tokens <= max_tokens
            THEN <<chunk>> \o SelectChunks(Tail(sorted_chunks),
                                           current_tokens + chunk_tokens, max_tokens)
            ELSE <<>>

optimize_prompt_length(context_chunks_, max_tokens) ==
    SelectChunks(sort_by_relevance_score(context_chunks_), base_prompt_tokens, max_tokens)

NoPrompt == [valid |-> FALSE]

PromptInit == built = NoPrompt

(***************************************************************************)
(* Inputs and initial state of the question endpoint.                      *)
(***************************************************************************)
\* QARequest.question: Field(..., min_length=1, max_length=1000)
min_length == 1
max_length == 1000

\* the limit of InputValidator.validate_question
validate_question_limit == 1000

\* a client retries a 5xx answer at most this many times
retry_limit == 3

\* questions, by their length and by what the content checks find in them
QuestionLengths == {0, min_length, max_length, max_length + 1}

AskedQuestions == [len : QuestionLengths, unsafe : BOOLEAN]

\* a request model that bounds the length from above only
QARequestNoMinLength(question) == question.len <= max_length

\* pydantic accepts the body as a QARequest
QARequestValid(question) ==
    question.len >= min_length /\ question.len <= max_length

\* InputValidator.validate_question: the error it raises, or "none"
validate_question(question) ==
    IF question.len > validate_question_limit THEN "ValueError"
    ELSE IF question.unsafe THEN "ValueError"
    ELSE "none"

\* the statuses a client retries
Retryable(status) == status >= 500

\* a gather that waits for the history only
GatherHistoryOnly(q) == q.history = "done"

\* asyncio.gather(embedding_task, history_task) has both results
GatherComplete(q) == q.embedding = "done" /\ q.history = "done"

NoQuestion == [len |-> min_length, unsafe |-> FALSE]

NoQA == [pc |-> "idle", question |-> NoQuestion, error |-> "none", status |-> 0,
         embedding |-> "none", history |-> "none", events |-> <<>>, attempts |-> 0]

QAInit == qa = NoQA

(***************************************************************************)
(* Inputs and initial state of answer post-processing.                     *)
(***************************************************************************)
\* a reference marker names a chunk; UnknownMarker names none
UnknownMarker == [literature_id |-> "none", chunk_index |-> 0]

Markers == ChunkStore \cup {UnknownMarker}

\* the reference markers of a generated text, in the order of the text
MarkerTexts == UNION {[1..n -> Markers] : n \in 0..MaxMarkers}

\* the candidate lists retrieval hands over for a document
CandidatesOf(literature_id) ==
    UNION { { c \in [1..n -> Scoped(literature_id)] :
                \A i, j \in 1..n : i # j => c[i] # c[j] } : n \in 0..MaxTopK }

\* a marker resolved against the whole vector store
MatchesAnyChunk(marker, candidates) == marker \in ChunkStore

\* a marker maps back to a chunk of the candidate set
MatchesCandidate(marker, candidates) ==
    \E i \in 1..Len(candidates) : candidates[i] = marker

\* the citations of a text: its markers that match a candidate, in order
RECURSIVE ExtractCitations(_, _)
ExtractCitations(markers, candidates) ==
    IF markers = <<>> THEN <<>>
    ELSE IF MatchesCandidate(Head(markers), candidates)
         THEN <<Head(markers)>> \o ExtractCitations(Tail(markers), candidates)
         ELSE ExtractCitations(Tail(markers), candidates)

\* a source of the response for a cited chunk
SourceOf(chunk) ==
    [id |-> <<chunk.literature_id, chunk.chunk_index>>,
     chunk_index |-> chunk.chunk_index, similarity |-> 85]

\* JavaScript's a || b on numbers: b when a is 0
JsOr(a, b) == IF a = 0 THEN b ELSE a

\* the source shown for a source of the response
ShownSource(source) ==
    [page |-> JsOr(source.chunk_index, 0), confidence |-> source.similarity]

NoCited == [pc |-> "idle"]

CitedInit == cited = NoCited

(***************************************************************************)
(* Inputs and initial state of the registration form.                      *)
(***************************************************************************)
\* the request validation of POST /api/auth/register
username_min_length == 3
username_max_length == 50
\* the checks of the form
phone_digits == 11
password_min_length == 8

\* a text field, by its length, whether it is all digits, and a tag that
\* tells texts of the same length apart
Text(len, digits, tag) == [len |-> len, digits |-> digits, tag |-> tag]

EmptyText == Text(0, TRUE, "")

Usernames ==
    {EmptyText, Text(username_min_length - 1, FALSE, "u"),
     Text(username_min_length, FALSE, "u"), Text(username_max_length, FALSE, "u"),
     Text(username_max_length + 1, FALSE, "u")}

PhoneNumbers ==
    {EmptyText, Text(phone_digits - 1, TRUE, "1"), Text(phone_digits, TRUE, "1"),
     Text(phone_digits, FALSE, "1")}

Passwords ==
    {EmptyText, Text(password_min_length - 1, FALSE, "p"),
     Text(password_min_length, FALSE, "p"), Text(password_min_length, FALSE, "q")}

FormFields == {"username", "phone_number", "password", "password_confirm"}

FieldValues(id) ==
    IF id = "username" THEN Usernames
    ELSE IF id = "phone_number" THEN PhoneNumbers
    ELSE Passwords

\* the error handleSubmit shows for the form data, "" when it sends
FormError(data) ==
    IF data.username.len = 0 THEN "username must not be empty"
    ELSE IF ~(data.phone_number.len = phone_digits /\ data.phone_number.digits)
         THEN "phone number must be 11 digits"
    ELSE IF data.password.len < password_min_length THEN "password needs at least 8 characters"
    ELSE IF data.password # data.password_confirm THEN "passwords differ"
    ELSE ""

\* the request validation of the server
RegisterRequestValid(body) ==
    /\ body.username.len >= username_min_length
    /\ body.username.len <= username_max_length
    /\ body.phone_number.len = phone_digits /\ body.phone_number.digits
    /\ body.password.len >= password_min_length
    /\ body.password_confirm = body.password

RegisterInit ==
    /\ formData = [username |-> EmptyText, phone_number |-> EmptyText,
                   password |-> EmptyText, password_confirm |-> EmptyText]
    /\ regError = ""
    /\ regLoading = FALSE
    /\ posted = <<>>
    /\ regPage = "register"

(***************************************************************************)
(* Inputs and initial state of the useApi hook.                            *)
(***************************************************************************)
\* JavaScript's null
Null == "null"

ApiResponses == {"response 1", "response 2"}

ApiErrors == {"error 1", "error 2"}

ExecuteCalls == 1..MaxExecuteCalls

\* execute on entry: setStatus('loading'); setError(null)
OnExecute(s) == [s EXCEPT !.status = "loading", !.error = Null]

\* execute after apiFunction resolved: setData(response); setStatus('success')
OnResolve(s, resolved) == [s EXCEPT !.data = resolved, !.status = "success"]

\* a catch block that clears the data as well
OnRejectClearsData(s, err) ==
    [s EXCEPT !.error = err, !.status = "error", !.data = Null]

\* execute after apiFunction rejected: setError(err); setStatus('error')
OnReject(s, err) == [s EXCEPT !.error = err, !.status = "error"]

\* started: the position of the call among the calls of execute, 0 before it
NotCalled ==
    [pc |-> "none", settled |-> Null, ended |-> "none", with |-> Null, started |-> 0]

\* the calls of execute made so far
Started(e) == {c \in ExecuteCalls : e[c].pc # "none"}

UseApiInit ==
    /\ api = [data |-> Null, error |-> Null, status |-> "idle"]
    /\ executions = [c \in ExecuteCalls |-> NotCalled]

(***************************************************************************)
(* Inputs and initial state of the assistant panel and its sessions.       *)
(***************************************************************************)
\* the sessions the server holds for the document at first
StoredSessions == {"s1", "s2"}

\* the turns getConversationHistory returns for a session
StoredTurns(s) == <<[session_id |-> s, turn_index |-> 1]>>

NoDeletion == [pc |-> "idle", sessionId |-> Null, selectedLiterature |-> Null,
               deleted |-> FALSE, reloaded |-> "no"]

\* the state update that follows the reload of the session list
AfterReload(prev, sessionsData, sessionId) ==
    [prev EXCEPT
        !.sessions = sessionsData,
        !.currentSessionId = IF prev.currentSessionId = sessionId THEN Null ELSE @,
        !.conversation = IF prev.currentSessionId = sessionId THEN <<>> ELSE @]

\* the panel is closed
AssistantInit ==
    /\ aiAssistant = [selectedLiterature |-> Null, currentSessionId |-> Null,
                      conversation |-> <<>>, sessions |-> {}]
    /\ serverSessions = StoredSessions
    /\ deletion = NoDeletion

(***************************************************************************)
(* Inputs and initial state of AuthProvider and the protected pages.       *)
(***************************************************************************)
\* the tokens the login endpoint hands out
AccessTokens == {"access-1", "access-2"}

RefreshTokens == {Null, "refresh-1"}

NoStorage == [token |-> Null, refresh_token |-> Null]

\* what an earlier visit can have left in localStorage
StoredByEarlierVisit ==
    {NoStorage} \cup [token : AccessTokens, refresh_token : RefreshTokens]

PageKinds == {"HomePage", "GroupPage", "ProtectedRoute"}

\* JavaScript's !!value for a string or null
Truthy(value) == value # Null /\ value # ""

\* login(token, refreshToken): the items of localStorage afterwards
LoginStorage(s, token, refreshToken) ==
    [token |-> token,
     refresh_token |-> IF Truthy(refreshToken) THEN refreshToken ELSE s.refresh_token]

\* a logout that leaves the refresh token behind
LogoutKeepsRefreshToken(s) == [s EXCEPT !.token = Null]

\* logout(): the items of localStorage afterwards
LogoutStorage(s) == [s EXCEPT !.token = Null, !.refresh_token = Null]

\* the values useState starts with in AuthProvider
AuthStart == [isAuthenticated |-> FALSE, isLoading |-> TRUE]

\* the effect a render of the page registers, as the values it closes
\* over: ProtectedRoute returns before its useEffect while isLoading
RegisteredEffect(kind, a) ==
    IF kind = "ProtectedRoute" /\ a.isLoading THEN <<>> ELSE <<a>>

\* the dependencies of the page's effect differ between two renders
DepsChanged(kind, a, b) ==
    IF kind = "ProtectedRoute"
    THEN a.isAuthenticated # b.isAuthenticated \/ a.isLoading # b.isLoading
    ELSE a.isAuthenticated # b.isAuthenticated

\* the effect of the page sends the user to /login
Redirects(kind, closed) ==
    IF kind = "ProtectedRoute"
    THEN ~closed.isLoading /\ ~closed.isAuthenticated
    ELSE ~closed.isAuthenticated

NoAuthCall == [call |-> "none", before |-> NoStorage]

\* nothing is loaded yet
AuthInit ==
    /\ storage = NoStorage
    /\ auth = AuthStart
    /\ authRoute = "unloaded"
    /\ pageKind = "HomePage"
    /\ providerEffect = FALSE
    /\ pageEffects = <<>>
    /\ lastAuthCall = NoAuthCall

(***************************************************************************)
(* The join-group dialog of the home page.  An invite code is the string   *)
(* in the input, modelled as a sequence of characters; a group is named by *)
(* the invitation code the server knows it by.                             *)
(***************************************************************************)
MaxCodeLen == 2

MaxLookups == 2

CodeChars == {" ", "A", "B"}

InviteCodes == UNION {[1..n -> CodeChars] : n \in 0..MaxCodeLen}

\* GET /groups/info/{code}: the group that has the invitation code, if any.
GroupOf(code) ==
    IF code = <<"A">> THEN "group A"
    ELSE IF code = <<"B">> THEN "group B"
    ELSE Null

RECURSIVE trimStart(_)
trimStart(s) ==
    IF s # <<>> /\ Head(s) = " " THEN trimStart(Tail(s)) ELSE s

RECURSIVE trimEnd(_)
trimEnd(s) ==
    IF s # <<>> /\ s[Len(s)] = " " THEN trimEnd(SubSeq(s, 1, Len(s) - 1)) ELSE s

\* String.prototype.trim
trim(s) == trimEnd(trimStart(s))

resetState(d) ==
    [d EXCEPT !.inviteCode = <<>>, !.groupInfo = Null, !.error = "",
              !.loading = FALSE, !.joining = FALSE]

NoJoinRequest == [state |-> "none", invitation_code |-> <<>>, displayed |-> Null]

JoinInit ==
    /\ joinDialog = [open |-> FALSE, inviteCode |-> <<>>, groupInfo |-> Null,
                     loading |-> FALSE, joining |-> FALSE, error |-> ""]
    /\ lookups = {}
    /\ lookupsSent = 0
    /\ joinRequest = NoJoinRequest

(***************************************************************************)
(* Inputs and initial state of the questions of the assistant panel.       *)
(***************************************************************************)
MaxAsks == 2

MaxHistoryLoads == 1

Documents == {"lit-1", "lit-2"}

\* the text of the question input
AiQuestions == {<<>>, <<" ">>, <<"q">>, <<"q", " ">>}

\* the document a session of the server belongs to; s4 and s5 are the
\* sessions askAI creates when it is called without a session_id
DocumentOf(sessionId) ==
    IF sessionId \in {"s1", "s2", "s4"} THEN "lit-1" ELSE "lit-2"

\* getAISessions({literature_id}) before any question is asked
SessionsOf(literature_id) ==
    {s \in StoredSessions \cup {"s3"} : DocumentOf(s) = literature_id}

\* response.session_id of askAI
ResponseSession(literature_id, session_id) ==
    IF session_id # Null THEN session_id
    ELSE IF literature_id = "lit-1" THEN "s4" ELSE "s5"

\* a send button disabled for an empty question only
SendDisabledWhenEmpty(question, thinking) == trim(question) = <<>>

\* disabled={!aiQuestion.trim() || isAIThinking}
SendDisabled(question, thinking) == trim(question) = <<>> \/ thinking

\* everything but the assistant panel and its questions
notPanelVars ==
    <<baseVars, promptVars, qaVars, citeVars, regVars, apiVars, authVars, joinVars>>

AskInit ==
    /\ isAIThinking = FALSE
    /\ asks = {}
    /\ asksSent = 0
    /\ histories = {}
    /\ historiesSent = 0
    /\ globalAsk = FALSE

Init ==
    /\ now = 0
    /\ CBInit
    /\ CacheInit
    /\ AnswerInit
    /\ EmbeddingInit
    /\ MemInit
    /\ ConversationInit
    /\ TurnStoreInit
    /\ RetrievalInit
    /\ PromptInit
    /\ QAInit
    /\ CitedInit
    /\ RegisterInit
    /\ UseApiInit
    /\ AssistantInit
    /\ AuthInit
    /\ JoinInit
    /\ AskInit

\* the clock advances
Tick ==
    /\ now + TickStep <= MaxTime
    /\ now' = now + TickStep
    /\ UNCHANGED <<cbVars, cacheVars, ansVars, otherVars>>

\* a caller enters call() on the breaker of dependency d; when admitted it
\* is inside the dependency until Complete
Call(d) ==
    /\ Busy < NumCallers
    /\ LET a == Admission(cb[d], now)
       IN /\ cb' = [cb EXCEPT ![d] = BeforeCall(cb[d], now)]
          /\ inflight' = IF a = "reject" THEN inflight
                         ELSE [inflight EXCEPT ![d][a] = @ + 1]
          /\ lastAdmission' = [lastAdmission EXCEPT ![d] = a]
    /\ UNCHANGED <<now, otherVars, consec, openedAt, cacheVars, ansVars>>

\* the dependency d answers (ok) or fails or times out (~ok) a call of
\* admission kind k, and the caller reports the outcome to the breaker
Complete(d, k, ok) ==
    /\ inflight[d][k] > 0
    /\ LET b == cb[d]
           stale == k = "pass" /\ b.state # "CLOSED"
           nb == IF ok THEN OnSuccess(b, k) ELSE OnFailure(b, k, now)
       IN /\ cb' = [cb EXCEPT ![d] = nb]
          /\ consec' = [consec EXCEPT ![d] =
                            IF stale THEN @ ELSE IF ok THEN 0 ELSE @ + 1]
          /\ openedAt' = [openedAt EXCEPT ![d] =
                            IF b.state # "OPEN" /\ nb.state = "OPEN" THEN now ELSE @]
    /\ inflight' = [inflight EXCEPT ![d][k] = @ - 1]
    /\ UNCHANGED <<now, otherVars, lastAdmission, cacheVars, ansVars>>

CBNext ==
    \/ Tick
    \/ \E d \in Deps : Call(d)
    \/ \E d \in Deps, k \in Kinds, ok \in BOOLEAN : Complete(d, k, ok)

SpecCB == Init /\ [][CBNext]_vars

(***************************************************************************)
(* Answer cache operations of CacheManager.                                *)
(***************************************************************************)
\* the clock advances by a cache-scale step
CacheTick ==
    /\ now + CacheTickStep <= MaxCacheTime
    /\ now' = now + CacheTickStep
    /\ UNCHANGED <<cbVars, cacheVars, ansVars, otherVars>>

\* the key get_answer and set_answer compute for a request
RequestKey(question, literature_id, chunks) ==
    answer_key(question, literature_id, context_hash(chunks))

\* CacheManager.set_answer(question, literature_id, context_chunks, answer_data)
\* with the chunk list named c and the answer generated for it
SetAnswerEffect(question, literature_id, c) ==
    LET chunks == context_chunks(c)
        ch == context_hash(chunks)
        key == answer_key(question, literature_id, ch)
        data == AnswerData(GeneratedText(question, chunks), chunks)
    IN /\ answer_cache' = CacheSet(answer_cache, key, CachedAnswer(data, ch, now),
                                   now, RAG_CACHE_ANSWER_MAX_SIZE, answer_cache_ttl)
       /\ lastSet' = [valid |-> TRUE, question |-> question,
                      literature_id |-> literature_id, context |-> c,
                      at |-> now, intact |-> TRUE]
       /\ lastGet' = NoGet
       /\ UNCHANGED stats

SetAnswer(question, literature_id, c) ==
    /\ SetAnswerEffect(question, literature_id, c)
    /\ UNCHANGED <<now, otherVars, cbVars, ansVars>>

\* CacheManager.get_answer(question, literature_id, context_chunks)
\* with the chunk list named c
GetAnswerEffect(question, literature_id, c) ==
    LET chunks == context_chunks(c)
        ch == context_hash(chunks)
        key == answer_key(question, literature_id, ch)
        cached == CacheGetValue(answer_cache, key, now)
        hit == cached # None
        returned == IF hit THEN ReturnedAnswer(cached, now) ELSE None
    IN /\ stats.hits + stats.misses < MaxGets
       /\ answer_cache' = IF hit
                          THEN CacheMutate(CacheGetTouch(answer_cache, key, now),
                                           key, returned)
                          ELSE answer_cache
       /\ stats' = IF hit THEN [stats EXCEPT !.hits = @ + 1]
                          ELSE [stats EXCEPT !.misses = @ + 1]
       /\ lastGet' = [valid |-> TRUE, question |-> question,
                      literature_id |-> literature_id, context |-> c,
                      at |-> now, value |-> returned]
       /\ UNCHANGED lastSet

GetAnswer(question, literature_id, c) ==
    /\ GetAnswerEffect(question, literature_id, c)
    /\ UNCHANGED <<now, otherVars, cbVars, ansVars>>

\* the key of the latest set_answer
LastSetKey ==
    RequestKey(lastSet.question, lastSet.literature_id, context_chunks(lastSet.context))

\* the latest set_answer no longer stands once its key is removed
Disturbed(removed) ==
    IF lastSet.valid /\ removed
    THEN [lastSet EXCEPT !.intact = FALSE] ELSE lastSet

\* answer_cache.delete(key): invalidate the entry of a request
InvalidateAnswer(question, literature_id, c) ==
    LET key == RequestKey(question, literature_id, context_chunks(c))
    IN /\ LiveAt(answer_cache, key, now) # {}
       /\ answer_cache' = CacheDelete(answer_cache, key, now)
       /\ lastSet' = Disturbed(lastSet.valid /\ LastSetKey = key)
       /\ UNCHANGED <<now, otherVars, stats, lastGet, cbVars, ansVars>>

\* answer_cache.clear()
ClearAnswers ==
    /\ answer_cache # <<>>
    /\ answer_cache' = <<>>
    /\ lastSet' = Disturbed(TRUE)
    /\ UNCHANGED <<now, otherVars, stats, lastGet, cbVars, ansVars>>

CacheNext ==
    \/ CacheTick
    \/ \E q \in Questions, l \in Literature, c \in Contexts : SetAnswer(q, l, c)
    \/ \E q \in Questions, l \in Literature, c \in Contexts : GetAnswer(q, l, c)
    \/ \E q \in Questions, l \in Literature, c \in Contexts : InvalidateAnswer(q, l, c)
    \/ ClearAnswers

SpecCache == Init /\ [][CacheNext]_vars

(***************************************************************************)
(* EmbeddingService.generate_embedding over the embedding cache.           *)
(***************************************************************************)
\* the key get_embedding and set_embedding compute: embedding_key(text)
EmbeddingRequestKey(text) == embedding_key(text, default_model)

\* EmbeddingService.generate_embedding(text): get_embedding, and on a miss
\* the embedding service (ok: it returned a vector) and set_embedding
GenerateEmbedding(text, ok) ==
    LET key == EmbeddingRequestKey(text)
        cached == CacheGetValue(embedding_cache, key, now)
        hit == cached # None
        embedding == IF ok THEN EmbeddingVector(embedding_model, text) ELSE None
    IN /\ stats.hits + stats.misses < MaxGets
       /\ hit => ok
       /\ embedding_cache' =
             IF hit THEN CacheGetTouch(embedding_cache, key, now)
             ELSE IF ok THEN CacheSet(embedding_cache, key, embedding, now,
                                      RAG_CACHE_EMBEDDING_MAX_SIZE, RAG_CACHE_TTL)
             ELSE embedding_cache
       /\ stats' = IF hit THEN [stats EXCEPT !.hits = @ + 1]
                   ELSE IF ok THEN [stats EXCEPT !.misses = @ + 1, !.sets = @ + 1]
                   ELSE [stats EXCEPT !.misses = @ + 1]
       /\ lastEmbedding' = [valid |-> TRUE, text |-> text, model |-> embedding_model,
                            cache_hit |-> hit,
                            embedding |-> IF hit THEN cached ELSE embedding]
       /\ UNCHANGED <<now, embedding_model, answer_cache, lastSet, lastGet, notEmbVars>>

\* the embedding service is configured with another model
SwitchEmbeddingModel(m) ==
    /\ m # embedding_model
    /\ embedding_model' = m
    /\ UNCHANGED <<now, embedding_cache, lastEmbedding, cacheVars, notEmbVars>>

EmbeddingNext ==
    \/ CacheTick
    \/ \E text \in EmbeddingTexts, ok \in BOOLEAN : GenerateEmbedding(text, ok)
    \/ \E m \in EmbeddingModels : SwitchEmbeddingModel(m)

SpecEmbedding == Init /\ [][EmbeddingNext]_vars

(***************************************************************************)
(* One MemoryCacheBackend used through get, set, delete and clear.  It is  *)
(* constructed the way CacheManager constructs its caches; the capacity    *)
(* is MemMaxSize and the ttl that of the answer cache.                     *)
(***************************************************************************)
\* a sequence of keys without key
WithoutKey(keys, key) ==
    LET other(k) == k # key IN SelectSeq(keys, other)

\* the entries of before that had not expired at t and whose key is gone in after
Evicted(before, after, t) ==
    {before[i] : i \in {j \in 1..Len(before) :
                          /\ t < before[j].expires
                          /\ \A n \in 1..Len(after) : after[n].key # before[j].key}}

\* MemoryCacheBackend.get(key)
MemGet(key) ==
    LET value == CacheGetValue(mem, key, now)
    IN /\ mem' = CacheGetTouch(mem, key, now)
       /\ mem_used' = IF value # None THEN WithoutKey(mem_used, key) \o <<key>>
                      ELSE mem_used
       /\ mem_op' = [op |-> "get", key |-> key]
       /\ lastMemGet' = [valid |-> TRUE, key |-> key, at |-> now, value |-> value]
       /\ UNCHANGED <<now, lastMemSet, notMemVars>>

\* MemoryCacheBackend.set(key, value, ttl)
MemSet(key, ttl) ==
    /\ mem' = MemorySet(mem, key, MemValue(key, now), ttl, now,
                        MemMaxSize, answer_cache_ttl)
    /\ mem_used' = WithoutKey(mem_used, key) \o <<key>>
    /\ mem_op' = [op |-> "set", key |-> key, evicted |-> Evicted(mem, mem', now)]
    /\ lastMemSet' = [valid |-> TRUE, key |-> key, at |-> now, ttl |-> ttl]
    /\ UNCHANGED <<now, lastMemGet, notMemVars>>

\* MemoryCacheBackend.delete(key)
MemDelete(key) ==
    /\ LiveAt(mem, key, now) # {}
    /\ mem' = CacheDelete(mem, key, now)
    /\ mem_used' = WithoutKey(mem_used, key)
    /\ mem_op' = [op |-> "delete", key |-> key]
    /\ lastMemSet' = IF lastMemSet.valid /\ lastMemSet.key = key
                     THEN NoMemSet ELSE lastMemSet
    /\ UNCHANGED <<now, lastMemGet, notMemVars>>

\* MemoryCacheBackend.clear()
MemClear ==
    /\ mem # <<>>
    /\ mem' = <<>>
    /\ mem_used' = <<>>
    /\ mem_op' = [op |-> "clear"]
    /\ lastMemSet' = NoMemSet
    /\ UNCHANGED <<now, lastMemGet, notMemVars>>

MemNext ==
    \/ CacheTick
    \/ \E key \in MemKeys : MemGet(key)
    \/ \E key \in MemKeys, ttl \in TtlArgs : MemSet(key, ttl)
    \/ \E key \in MemKeys : MemDelete(key)
    \/ MemClear

SpecBackend == Init /\ [][MemNext]_vars

(***************************************************************************)
(* getContextWindow: the compression loop over the turns of a session.     *)
(***************************************************************************)
\* a turn is appended to the session
AppendHistory(tokens, entity) ==
    /\ Len(history) < MaxTurns
    /\ \/ Len(history) < MaxVariedTurns
       \/ \A i \in 1..Len(history) :
             history[i].tokens = tokens /\ history[i].entity = entity
    /\ history' = Append(history, [index |-> Len(history) + 1,
                                   tokens |-> tokens, entity |-> entity])
    /\ UNCHANGED <<now, window, notConvVars>>

\* the window over the first n turns with recentTurns retained
WindowOf(budget, n, recentTurns, iterations, before) ==
    LET topicSummary == BuildSummary(OlderOf(history, n, Len(recentTurns)))
        estimate == EstimateTokens(recentTurns, topicSummary)
    IN [pc |-> IF WithinBudget(estimate, budget) \/ recentTurns = <<>>
               THEN "done" ELSE "compressing",
        budget |-> budget, n |-> n,
        recentTurns |-> recentTurns, topicSummary |-> topicSummary,
        estimatedTokenCount |-> estimate,
        iterations |-> iterations, before |-> before]

\* getContextWindow(sessionId, tokenBudget): a history within the budget is
\* returned whole; otherwise steps 1 to 4 with the most recent
\* max_history_turns turns retained
GetContextWindow(budget) ==
    LET n == Len(history)
        raw == SumTokens(history)
    IN /\ window.pc # "compressing"
       /\ window' = IF WithinBudget(raw, budget)
                    THEN WindowOf(budget, n, history, 0, raw)
                    ELSE WindowOf(budget, n, RecentOf(history, n, Min(max_history_turns, n)),
                                  0, raw)
       /\ UNCHANGED <<now, history, notConvVars>>

\* step 4, still over budget: drop the oldest retained turn, rebuild the
\* summary, recompute the estimate
CompressStep ==
    /\ window.pc = "compressing"
    /\ window' = WindowOf(window.budget, window.n, DropOldest(window.recentTurns),
                          window.iterations + 1, window.estimatedTokenCount)
    /\ UNCHANGED <<now, history, notConvVars>>

ContextNext ==
    \/ \E tokens \in TurnTokens, entity \in BOOLEAN : AppendHistory(tokens, entity)
    \/ \E budget \in TokenBudgets : GetContextWindow(budget)
    \/ CompressStep

SpecContext == Init /\ [][ContextNext]_vars

\* the loop, once entered, keeps running
SpecContextLive == SpecContext /\ WF_vars(CompressStep)

(***************************************************************************)
(* sendAIQuestion on a client, appendTurn in the store.                    *)
(***************************************************************************)
\* sendAIQuestion, up to the request: the inputs are disabled while
\* isAIThinking; the handler keeps the aiAssistant state of its render
SendAIQuestion(c) ==
    LET session_id == clients[c].currentSessionId
        s == TargetSession(session_id)
    IN /\ clients[c].call.pc = "idle"
       /\ turnCount[s] + Cardinality(CallsOn(s)) < MaxSessionTurns
       /\ clients' = [clients EXCEPT ![c].call =
                         [pc |-> "sent", session_id |-> session_id,
                          length |-> Len(clients[c].conversation)]]
       /\ UNCHANGED <<now, sessions, turnCount, lock, notTurnVars>>

\* appendTurn: the call takes hold of its session
AppendAcquire(c) ==
    LET s == TargetSession(clients[c].call.session_id)
    IN /\ clients[c].call.pc = "sent"
       /\ lock[s] = "free"
       /\ lock' = [lock EXCEPT ![s] = c]
       /\ clients' = [clients EXCEPT ![c].call =
                         [pc |-> "locked", session_id |-> s,
                          length |-> clients[c].call.length]]
       /\ UNCHANGED <<now, sessions, turnCount, notTurnVars>>

\* appendTurn: the next index is read from turnCount
AppendRead(c) ==
    LET s == clients[c].call.session_id
    IN /\ clients[c].call.pc = "locked"
       /\ clients' = [clients EXCEPT ![c].call =
                         [pc |-> "read", session_id |-> s,
                          length |-> clients[c].call.length,
                          index |-> turnCount[s] + 1]]
       /\ UNCHANGED <<now, sessions, turnCount, lock, notTurnVars>>

\* appendTurn: the turn is stored, turnCount follows, the session is let go
AppendWrite(c) ==
    LET s == clients[c].call.session_id
        turn == [turn_id |-> <<s, Len(sessions[s]) + 1>>,
                 index |-> clients[c].call.index]
    IN /\ clients[c].call.pc = "read"
       /\ sessions' = [sessions EXCEPT ![s] = Append(@, turn)]
       /\ turnCount' = [turnCount EXCEPT ![s] = turn.index]
       /\ lock' = [lock EXCEPT ![s] = "free"]
       /\ clients' = [clients EXCEPT ![c].call =
                         [pc |-> "responded", session_id |-> s,
                          length |-> clients[c].call.length,
                          turn_id |-> turn.turn_id]]
       /\ UNCHANGED <<now, notTurnVars>>

\* sendAIQuestion, after the response: newTurn with
\* turn_index = aiAssistant.conversation.length + 1 is appended to
\* prev.conversation
ReceiveResponse(c) ==
    LET call == clients[c].call
        newTurn == [turn_id |-> call.turn_id, turn_index |-> call.length + 1]
    IN /\ call.pc = "responded"
       /\ clients' = [clients EXCEPT ![c] =
                         [currentSessionId |-> call.session_id,
                          conversation |-> Append(clients[c].conversation, newTurn),
                          call |-> NoCall]]
       /\ UNCHANGED <<now, sessions, turnCount, lock, notTurnVars>>

\* loadConversationHistory(sessionId)
LoadConversationHistory(c, s) ==
    /\ sessions[s] # <<>>
    /\ clients' = [clients EXCEPT
                      ![c].currentSessionId = s,
                      ![c].conversation =
                          [i \in 1..Len(sessions[s]) |->
                              [turn_id |-> sessions[s][i].turn_id,
                               turn_index |-> sessions[s][i].index]]]
    /\ UNCHANGED <<now, sessions, turnCount, lock, notTurnVars>>

TurnNext ==
    \/ \E c \in Clients : SendAIQuestion(c)
    \/ \E c \in Clients : AppendAcquire(c)
    \/ \E c \in Clients : AppendRead(c)
    \/ \E c \in Clients : AppendWrite(c)
    \/ \E c \in Clients : ReceiveResponse(c)
    \/ \E c \in Clients, s \in SessionIds : LoadConversationHistory(c, s)

SpecTurns == Init /\ [][TurnNext]_vars

(***************************************************************************)
(* retrieve_chunks(question, literature_id, top_k).                        *)
(***************************************************************************)
\* retrieve_chunks is called
RetrieveStart(literature_id, top_k) ==
    /\ retrieval.pc \in {"none", "done"}
    /\ retrieval' = [pc |-> "vector", literature_id |-> literature_id, top_k |-> top_k]
    /\ UNCHANGED <<now, notRetrVars>>

\* 1. vector_results = vector_search(question_embedding, top_k*2)
VectorSearch ==
    /\ retrieval.pc = "vector"
    /\ \E vector_results \in VectorSearchResults(retrieval.literature_id,
                                                 RoughK(retrieval.top_k)) :
          retrieval' = [pc |-> "keyword", literature_id |-> retrieval.literature_id,
                        top_k |-> retrieval.top_k, vector_results |-> vector_results]
    /\ UNCHANGED <<now, notRetrVars>>

\* 2. keyword_results = keyword_search(extract_keywords(question));
\* 3. merged_results = merge_and_rerank(vector_results, keyword_results);
\* return merged_results[:top_k]
KeywordSearchAndMerge ==
    /\ retrieval.pc = "keyword"
    /\ \E keyword_results \in KeywordSearchResults(retrieval.literature_id) :
          LET merged_results == merge_and_rerank(retrieval.vector_results, keyword_results)
          IN retrieval' = [pc |-> "done", literature_id |-> retrieval.literature_id,
                           top_k |-> retrieval.top_k,
                           vector_results |-> retrieval.vector_results,
                           keyword_results |-> keyword_results,
                           merged_results |-> merged_results,
                           results |-> Take(merged_results, retrieval.top_k)]
    /\ UNCHANGED <<now, notRetrVars>>

RetrieveNext ==
    \/ \E literature_id \in RetrievalDocs, top_k \in TopKs :
          RetrieveStart(literature_id, top_k)
    \/ VectorSearch
    \/ KeywordSearchAndMerge

SpecRetrieve == Init /\ [][RetrieveNext]_vars

(***************************************************************************)
(* answer(): cache probe, generation behind the breaker, degradation chain.*)
(***************************************************************************)
\* what retrieval hands to answer(): a chunk list, or "unavailable"
\* ("empty": both search paths returned no candidates)
Retrievals == {"A", "C", "empty", "unavailable"}

NoRelevantContentText == "no relevant content"

ApologyText == "the assistant is unavailable, please retry later"
RawSourcesText == "unsummarized sources"

\* the response of a live generation or of a fresh cache hit
FullResponse(data) ==
    [valid |-> TRUE, answer |-> data.answer, sources |-> data.sources,
     confidence |-> data.confidence, degraded |-> FALSE, tier |-> "none"]

\* tier 1 returned as it comes out of the cache, without the degraded label
CachedResponseUnlabelled(data) ==
    [valid |-> TRUE, answer |-> data.answer, sources |-> data.sources,
     confidence |-> data.confidence, degraded |-> FALSE, tier |-> "none"]

\* tier 1: a previously cached answer
CachedResponse(data) ==
    [valid |-> TRUE, answer |-> data.answer, sources |-> data.sources,
     confidence |-> data.confidence, degraded |-> TRUE, tier |-> "cached"]

\* tier 2: the retrieved chunks without synthesis
RawSourcesResponse(chunks) ==
    [valid |-> TRUE, answer |-> RawSourcesText, sources |-> ChunkIds(chunks),
     confidence |-> 0, degraded |-> TRUE, tier |-> "raw_sources"]

\* tier 3: static apology with retry guidance
ApologyResponse ==
    [valid |-> TRUE, answer |-> ApologyText, sources |-> <<>>,
     confidence |-> 0, degraded |-> TRUE, tier |-> "apology"]

\* the answer of an invocation whose retrieval found no candidates
NoRelevantContentResponse ==
    [valid |-> TRUE, answer |-> NoRelevantContentText, sources |-> <<>>,
     confidence |-> 0, degraded |-> FALSE, tier |-> "none"]

\* an orchestrator that hands an empty candidate list on to the generator
NeverShortCircuits(r) == FALSE

\* the retrieval result on which answer() short-circuits
ShortCircuits(r) == r = "empty"

\* entries held for key, expired or not ("even if slightly stale")
StaleLookup(cache, key) == {i \in 1..Len(cache) : cache[i].key = key}

\* the chain with tiers 1 and 2 in the wrong order
DegradeRawFirst(cache, question, literature_id, r) ==
    IF r = "unavailable" THEN ApologyResponse
    ELSE RawSourcesResponse(context_chunks(r))

\* the degradation chain: cached answer, then raw sources, then apology
Degrade(cache, question, literature_id, r) ==
    IF r = "unavailable" THEN ApologyResponse
    ELSE LET key == RequestKey(question, literature_id, context_chunks(r))
             found == StaleLookup(cache, key)
         IN IF found # {}
            THEN CachedResponse(cache[CHOOSE i \in found : TRUE].value)
            ELSE RawSourcesResponse(context_chunks(r))

\* a cached answer is held for the request at the time the chain runs
HadCached(cache, question, literature_id, r) ==
    /\ r # "unavailable"
    /\ \E e \in {cache[i] : i \in 1..Len(cache)} :
          e.key = RequestKey(question, literature_id, context_chunks(r))

\* answer() up to the generation call: retrieval, then the answer-cache probe
AnswerStart(question, literature_id, r) ==
    /\ areq.pc \in {"idle", "done"}
    /\ IF r = "unavailable"
       THEN /\ response' = Degrade(answer_cache, question, literature_id, r)
            /\ route' = [path |-> "fallback", hadCached |-> FALSE, retrieved |-> FALSE]
            /\ areq' = [pc |-> "done", retrieval |-> r]
            /\ UNCHANGED cacheVars
       ELSE IF ShortCircuits(r)
       THEN /\ response' = NoRelevantContentResponse
            /\ route' = [path |-> "no_content", hadCached |-> FALSE, retrieved |-> TRUE]
            /\ areq' = [pc |-> "done", retrieval |-> r]
            /\ UNCHANGED cacheVars
       ELSE /\ GetAnswerEffect(question, literature_id, r)
            /\ IF lastGet'.value # None
               THEN /\ response' = FullResponse(lastGet'.value)
                    /\ route' = [path |-> "cache_hit", hadCached |-> TRUE, retrieved |-> TRUE]
                    /\ areq' = [pc |-> "done", retrieval |-> r]
               ELSE /\ response' = NoResponse
                    /\ route' = NoRoute
                    /\ areq' = [pc |-> "probed", question |-> question,
                                literature_id |-> literature_id, retrieval |-> r]
    /\ UNCHANGED <<now, otherVars, cbVars>>

\* answer() at the generation call: the breaker admits it or the chain runs
AnswerCallGenerator ==
    /\ areq.pc = "probed"
    /\ LET a == Admission(cb["generation"], now)
       IN IF a = "reject"
          THEN /\ response' = Degrade(answer_cache, areq.question,
                                      areq.literature_id, areq.retrieval)
               /\ route' = [path |-> "fallback",
                            hadCached |-> HadCached(answer_cache, areq.question,
                                             areq.literature_id, areq.retrieval),
                            retrieved |-> TRUE]
               /\ areq' = [pc |-> "done", retrieval |-> areq.retrieval]
               /\ UNCHANGED cb
          ELSE /\ cb' = [cb EXCEPT !["generation"] = BeforeCall(@, now)]
               /\ areq' = [areq EXCEPT !.pc = "generating"] @@ [kind |-> a]
               /\ UNCHANGED <<response, route>>
    /\ lastAdmission' = [lastAdmission EXCEPT !["generation"] =
                             Admission(cb["generation"], now)]
    /\ UNCHANGED <<now, otherVars, inflight, consec, openedAt, cacheVars>>

\* answer() after the generation call: a live answer is stored and returned,
\* a failure or timeout is reported to the breaker and the chain runs
AnswerGenerated(ok) ==
    /\ areq.pc = "generating"
    /\ LET b == cb["generation"]
           stale == areq.kind = "pass" /\ b.state # "CLOSED"
           nb == IF ok THEN OnSuccess(b, areq.kind) ELSE OnFailure(b, areq.kind, now)
           chunks == context_chunks(areq.retrieval)
       IN /\ cb' = [cb EXCEPT !["generation"] = nb]
          /\ consec' = [consec EXCEPT !["generation"] =
                            IF stale THEN @ ELSE IF ok THEN 0 ELSE @ + 1]
          /\ openedAt' = [openedAt EXCEPT !["generation"] =
                            IF b.state # "OPEN" /\ nb.state = "OPEN" THEN now ELSE @]
          /\ IF ok
             THEN /\ SetAnswerEffect(areq.question, areq.literature_id, areq.retrieval)
                  /\ response' = FullResponse(
                        AnswerData(GeneratedText(areq.question, chunks), chunks))
                  /\ route' = [path |-> "live", hadCached |-> FALSE, retrieved |-> TRUE]
             ELSE /\ response' = Degrade(answer_cache, areq.question,
                                         areq.literature_id, areq.retrieval)
                  /\ route' = [path |-> "fallback",
                               hadCached |-> HadCached(answer_cache, areq.question,
                                                areq.literature_id, areq.retrieval),
                               retrieved |-> TRUE]
                  /\ UNCHANGED cacheVars
    /\ areq' = [pc |-> "done", retrieval |-> areq.retrieval]
    /\ UNCHANGED <<now, otherVars, inflight, lastAdmission>>

AnswerNext ==
    \/ CacheTick
    \/ \E q \in Questions, l \in Literature, r \in Retrievals : AnswerStart(q, l, r)
    \/ AnswerCallGenerator
    \/ \E ok \in BOOLEAN : AnswerGenerated(ok)
    \/ Call("generation")
    \/ \E k \in Kinds, ok \in BOOLEAN : Complete("generation", k, ok)

SpecAnswer == Init /\ [][AnswerNext]_vars

(***************************************************************************)
(* Prompt assembly: optimize_prompt_length.                                *)
(***************************************************************************)
\* a call of optimize_prompt_length; the function has no raise statement
OptimizePromptLength(candidates, max_tokens) ==
    /\ built' = [valid |-> TRUE, context_chunks |-> candidates,
                 max_tokens |-> max_tokens,
                 raised |-> "none",
                 selected_chunks |-> optimize_prompt_length(candidates, max_tokens)]
    /\ UNCHANGED <<now, notPromptVars>>

PromptNext ==
    \E candidates \in CandidateLists, max_tokens \in MaxTokenValues :
        OptimizePromptLength(candidates, max_tokens)

SpecPrompt == Init /\ [][PromptNext]_vars

(***************************************************************************)
(* The question endpoint: request validation and process_question.         *)
(***************************************************************************)
\* the request body is validated before the handler runs; the handler
\* validates the question before it processes it
Receive(question, attempts) ==
    IF ~QARequestValid(question)
    THEN [NoQA EXCEPT !.pc = "rejected", !.question = question,
                      !.error = "ValidationError", !.status = 422,
                      !.attempts = attempts]
    ELSE IF validate_question(question) # "none"
    THEN [NoQA EXCEPT !.pc = "rejected", !.question = question,
                      !.error = validate_question(question), !.status = 400,
                      !.attempts = attempts]
    ELSE [NoQA EXCEPT !.pc = "accepted", !.question = question,
                      !.attempts = attempts]

\* POST /ai/ask with a new question
AskQuestion(question) ==
    /\ qa.pc \in {"idle", "rejected", "failed", "answered"}
    /\ qa' = Receive(question, 1)
    /\ UNCHANGED <<now, notQaVars>>

\* the client sends the request again after an answer it may retry
RetryQuestion ==
    /\ qa.pc \in {"rejected", "failed"}
    /\ Retryable(qa.status)
    /\ qa.attempts <= retry_limit
    /\ qa' = Receive(qa.question, qa.attempts + 1)
    /\ UNCHANGED <<now, notQaVars>>

\* process_question creates the embedding task and the history task
CreateTasks ==
    /\ qa.pc = "accepted"
    /\ qa' = [qa EXCEPT !.pc = "gathering",
                        !.embedding = "running", !.history = "running",
                        !.events = @ \o <<"embedding_started", "history_started">>]
    /\ UNCHANGED <<now, notQaVars>>

\* the embedding task ends, with a vector or with an exception
EmbeddingTaskEnds(ok) ==
    /\ qa.embedding = "running"
    /\ qa' = [qa EXCEPT !.embedding = IF ok THEN "done" ELSE "failed",
                        !.events = IF ok THEN @ \o <<"embedding_done">> ELSE @]
    /\ UNCHANGED <<now, notQaVars>>

\* the history task ends
HistoryTaskEnds ==
    /\ qa.history = "running"
    /\ qa' = [qa EXCEPT !.history = "done", !.events = @ \o <<"history_done">>]
    /\ UNCHANGED <<now, notQaVars>>

\* await gather returns, and the similarity search starts; or gather
\* raises the exception of the embedding task
GatherReturns ==
    /\ qa.pc = "gathering"
    /\ IF qa.embedding = "failed"
       THEN qa' = [qa EXCEPT !.pc = "failed", !.error = "DependencyUnavailable",
                             !.status = 503]
       ELSE /\ GatherComplete(qa)
            /\ qa' = [qa EXCEPT !.pc = "searching",
                                !.events = @ \o <<"retrieval_started">>]
    /\ UNCHANGED <<now, notQaVars>>

\* search_similar_chunks returns, and the prompt is built from the chunks
\* and the history
SearchReturns ==
    /\ qa.pc = "searching"
    /\ qa' = [qa EXCEPT !.pc = "prompting",
                        !.events = @ \o <<"retrieval_done">>]
    /\ UNCHANGED <<now, notQaVars>>

\* the prompt is assembled, and generate_answer is called with it
CallGenerateAnswer ==
    /\ qa.pc = "prompting"
    /\ qa' = [qa EXCEPT !.pc = "generating",
                        !.events = @ \o <<"prompt_assembled", "generation_started">>]
    /\ UNCHANGED <<now, notQaVars>>

\* generate_answer returns or raises
GenerateAnswerEnds(ok) ==
    /\ qa.pc = "generating"
    /\ qa' = IF ok
             THEN [qa EXCEPT !.pc = "answered", !.status = 200,
                             !.events = @ \o <<"generation_done">>]
             ELSE [qa EXCEPT !.pc = "failed", !.error = "DependencyUnavailable",
                             !.status = 503]
    /\ UNCHANGED <<now, notQaVars>>

QANext ==
    \/ \E question \in AskedQuestions : AskQuestion(question)
    \/ RetryQuestion
    \/ CreateTasks
    \/ \E ok \in BOOLEAN : EmbeddingTaskEnds(ok)
    \/ HistoryTaskEnds
    \/ GatherReturns
    \/ SearchReturns
    \/ CallGenerateAnswer
    \/ \E ok \in BOOLEAN : GenerateAnswerEnds(ok)

SpecQA == Init /\ [][QANext]_vars

(***************************************************************************)
(* Answer post-processing, the stored turn and the turn shown.             *)
(***************************************************************************)
\* process(rawGeneratedText, candidates, question)
ProcessAnswer(literature_id, candidates, markers) ==
    /\ cited.pc \in {"idle", "shown"}
    /\ cited' = [pc |-> "processed", literature_id |-> literature_id,
                 candidates |-> candidates, markers |-> markers,
                 citations |-> ExtractCitations(markers, candidates)]
    /\ UNCHANGED <<now, notCiteVars>>

\* appendTurn(sessionId, question, answer, citations, confidence), and the
\* response built from the processed answer
AppendCitedTurn ==
    /\ cited.pc = "processed"
    /\ cited' = [cited EXCEPT !.pc = "stored"] @@
                [citedChunkIds |-> [i \in 1..Len(cited.citations) |->
                                       <<cited.citations[i].literature_id,
                                         cited.citations[i].chunk_index>>],
                 sources |-> [i \in 1..Len(cited.citations) |->
                                 SourceOf(cited.citations[i])]]
    /\ UNCHANGED <<now, notCiteVars>>

\* sendAIQuestion builds the turn it shows from response.sources
ShowCitedTurn ==
    /\ cited.pc = "stored"
    /\ cited' = [cited EXCEPT !.pc = "shown"] @@
                [shown |-> [i \in 1..Len(cited.sources) |->
                               ShownSource(cited.sources[i])]]
    /\ UNCHANGED <<now, notCiteVars>>

CitedNext ==
    \/ \E literature_id \in RetrievalDocs :
          \E candidates \in CandidatesOf(literature_id), markers \in MarkerTexts :
             ProcessAnswer(literature_id, candidates, markers)
    \/ AppendCitedTurn
    \/ ShowCitedTurn

SpecCited == Init /\ [][CitedNext]_vars

(***************************************************************************)
(* The registration form: Register.                                        *)
(***************************************************************************)
\* handleInputChange, on a change of the value of a field: the inputs are
\* disabled while loading
HandleInputChange(id, value) ==
    /\ regPage = "register"
    /\ ~regLoading
    /\ formData[id] # value
    /\ formData' = [formData EXCEPT ![id] = value]
    /\ regError' = ""
    /\ UNCHANGED <<now, notRegVars, regLoading, posted, regPage>>

\* handleSubmit up to the request: the checks, then axios.post
HandleSubmit ==
    /\ regPage = "register"
    /\ ~regLoading
    /\ Len(posted) < MaxPosts
    /\ IF FormError(formData) # ""
       THEN /\ regError' = FormError(formData)
            /\ UNCHANGED <<regLoading, posted>>
       ELSE /\ regLoading' = TRUE
            /\ posted' = Append(posted, formData)
            /\ UNCHANGED regError
    /\ UNCHANGED <<now, notRegVars, formData, regPage>>

\* handleSubmit after the request: 201 goes to /login, an error is shown
RegisterResponds(created) ==
    /\ regLoading
    /\ created => RegisterRequestValid(posted[Len(posted)])
    /\ IF created
       THEN regPage' = "login" /\ UNCHANGED regError
       ELSE regError' = "registration failed" /\ UNCHANGED regPage
    /\ regLoading' = FALSE
    /\ UNCHANGED <<now, notRegVars, formData, posted>>

RegisterNext ==
    \/ \E id \in FormFields : \E value \in FieldValues(id) :
          HandleInputChange(id, value)
    \/ HandleSubmit
    \/ \E created \in BOOLEAN : RegisterResponds(created)

SpecRegister == Init /\ [][RegisterNext]_vars

(***************************************************************************)
(* Cache statistics: CacheStats and the report of GET /admin/cache/stats.  *)
(***************************************************************************)
\* a rate, as a fraction
Rate(n, d) == [num |-> n, den |-> d]

\* CacheStats.hit_rate
hit_rate(s) ==
    LET total == s.hits + s.misses
    IN IF total > 0 THEN Rate(s.hits, total) ELSE Rate(0, 1)

\* MemoryCacheBackend.size: len of the TTLCache, which counts live entries
size(cache) == Len(Expire(cache, now))

\* get_cache_stats: the statistics reported for each cache
get_cache_stats ==
    [embedding_cache |-> [hits |-> stats.hits, misses |-> stats.misses,
                          hit_rate |-> hit_rate(stats),
                          size |-> size(embedding_cache)],
     answer_cache |-> [size |-> size(answer_cache)]]

\* lookups and writes on the answer cache and on the embedding cache of
\* one CacheManager
StatsNext ==
    \/ CacheTick
    \/ \E q \in Questions, l \in Literature, c \in Contexts : SetAnswer(q, l, c)
    \/ \E q \in Questions, l \in Literature, c \in Contexts : GetAnswer(q, l, c)
    \/ \E text \in EmbeddingTexts, ok \in BOOLEAN : GenerateEmbedding(text, ok)

SpecStats == Init /\ [][StatsNext]_vars

(***************************************************************************)
(* The useApi hook.                                                        *)
(***************************************************************************)
\* what the hook returns as isLoading
isLoading == api.status = "loading"

\* execute is called and awaits apiFunction
Execute(c) ==
    /\ executions[c].pc = "none"
    /\ api' = OnExecute(api)
    /\ executions' = [executions EXCEPT
                         ![c].pc = "awaiting",
                         ![c].started = Cardinality(Started(executions)) + 1]
    /\ UNCHANGED <<now, notApiVars>>

\* apiFunction resolves: execute returns the response
ExecuteResolves(c, resolved) ==
    /\ executions[c].pc = "awaiting"
    /\ api' = OnResolve(api, resolved)
    /\ executions' = [executions EXCEPT
                         ![c].pc = "done", ![c].settled = resolved,
                         ![c].ended = "returned", ![c].with = resolved]
    /\ UNCHANGED <<now, notApiVars>>

\* apiFunction rejects: execute throws the error again
ExecuteRejects(c, err) ==
    /\ executions[c].pc = "awaiting"
    /\ api' = OnReject(api, err)
    /\ executions' = [executions EXCEPT
                         ![c].pc = "done", ![c].settled = err,
                         ![c].ended = "threw", ![c].with = err]
    /\ UNCHANGED <<now, notApiVars>>

UseApiNext ==
    \/ \E c \in ExecuteCalls : Execute(c)
    \/ \E c \in ExecuteCalls, resolved \in ApiResponses : ExecuteResolves(c, resolved)
    \/ \E c \in ExecuteCalls, err \in ApiErrors : ExecuteRejects(c, err)

SpecUseApi == Init /\ [][UseApiNext]_vars

(***************************************************************************)
(* The assistant panel: opening and deleting conversation sessions.        *)
(***************************************************************************)
\* loadConversationHistory(sessionId), when the server returns the history
OpenConversation(sessionId) ==
    /\ aiAssistant.selectedLiterature # Null
    /\ sessionId \in aiAssistant.sessions
    /\ sessionId \in serverSessions
    /\ aiAssistant.currentSessionId # sessionId
    /\ aiAssistant' = [aiAssistant EXCEPT !.currentSessionId = sessionId,
                                          !.conversation = StoredTurns(sessionId)]
    /\ UNCHANGED <<now, notDelVars, serverSessions, deletion>>

\* closeAIAssistant
CloseAIAssistant ==
    /\ aiAssistant.selectedLiterature # Null
    /\ aiAssistant' = [aiAssistant EXCEPT !.selectedLiterature = Null,
                                          !.currentSessionId = Null,
                                          !.conversation = <<>>]
    /\ UNCHANGED <<now, notDelVars, serverSessions, deletion>>

\* deleteConversation(sessionId) is confirmed and sends the request; the
\* call keeps the aiAssistant of the render it was made in
DeleteConversation(sessionId) ==
    /\ deletion.pc \in {"idle", "done"}
    /\ aiAssistant.selectedLiterature # Null
    /\ sessionId \in aiAssistant.sessions
    /\ deletion' = [NoDeletion EXCEPT
                       !.pc = "deleting", !.sessionId = sessionId,
                       !.selectedLiterature = aiAssistant.selectedLiterature]
    /\ UNCHANGED <<now, notDelVars, aiAssistant, serverSessions>>

\* LiteratureAPI.deleteConversation settles: the server deleted the
\* session, or the request failed and the catch block shows the alert
DeleteSettles(ok) ==
    /\ deletion.pc = "deleting"
    /\ ok => deletion.sessionId \in serverSessions
    /\ IF ok
       THEN /\ serverSessions' = serverSessions \ {deletion.sessionId}
            /\ deletion' = [deletion EXCEPT
                               !.deleted = TRUE,
                               !.pc = IF deletion.selectedLiterature # Null
                                      THEN "reloading" ELSE "done"]
       ELSE /\ deletion' = [deletion EXCEPT !.pc = "done"]
            /\ UNCHANGED serverSessions
    /\ UNCHANGED <<now, notDelVars, aiAssistant>>

\* LiteratureAPI.getAISessions settles: the state is updated from the
\* list, or the request failed and the catch block shows the alert
ReloadSettles(ok) ==
    /\ deletion.pc = "reloading"
    /\ IF ok
       THEN /\ aiAssistant' = AfterReload(aiAssistant, serverSessions,
                                          deletion.sessionId)
            /\ deletion' = [deletion EXCEPT !.pc = "done", !.reloaded = "yes"]
       ELSE /\ deletion' = [deletion EXCEPT !.pc = "done", !.reloaded = "failed"]
            /\ UNCHANGED aiAssistant
    /\ UNCHANGED <<now, notDelVars, serverSessions>>

\* openAIAssistant(literature), when the session list is loaded
OpenAIAssistant ==
    /\ aiAssistant.selectedLiterature = Null
    /\ aiAssistant' = [aiAssistant EXCEPT !.selectedLiterature = "lit-1",
                                          !.sessions = serverSessions]
    /\ UNCHANGED <<now, notDelVars, serverSessions, deletion>>

AssistantNext ==
    \/ \E s \in StoredSessions : OpenConversation(s)
    \/ CloseAIAssistant
    \/ OpenAIAssistant
    \/ \E s \in StoredSessions : DeleteConversation(s)
    \/ \E ok \in BOOLEAN : DeleteSettles(ok)
    \/ \E ok \in BOOLEAN : ReloadSettles(ok)

SpecAssistant == Init /\ [][AssistantNext]_vars

(***************************************************************************)
(* AuthProvider, and the pages that redirect to /login.                    *)
(***************************************************************************)
\* the first render of AuthProvider and of the page, before any effect
Mounted(kind) ==
    /\ auth' = AuthStart
    /\ authRoute' = "/protected"
    /\ pageKind' = kind
    /\ providerEffect' = TRUE
    /\ pageEffects' = RegisteredEffect(kind, AuthStart)
    /\ lastAuthCall' = NoAuthCall

\* a protected page is loaded directly, with what an earlier visit stored
LoadPage(kind, stored) ==
    /\ authRoute = "unloaded"
    /\ storage' = stored
    /\ Mounted(kind)
    /\ UNCHANGED <<now, notAuthVars>>

\* the login page is loaded directly
LoadLoginPage(stored) ==
    /\ authRoute = "unloaded"
    /\ storage' = stored
    /\ auth' = AuthStart
    /\ authRoute' = "/login"
    /\ providerEffect' = TRUE
    /\ pageEffects' = <<>>
    /\ lastAuthCall' = NoAuthCall
    /\ UNCHANGED <<now, notAuthVars, pageKind>>

\* the page is loaded again
ReloadPage(kind) ==
    /\ authRoute = "/protected"
    /\ ~providerEffect /\ pageEffects = <<>>
    /\ UNCHANGED storage
    /\ Mounted(kind)
    /\ UNCHANGED <<now, notAuthVars>>

\* AuthProvider's effect: the initial check of the token
InitialCheck ==
    /\ providerEffect
    /\ LET checked == [isAuthenticated |-> Truthy(storage.token),
                       isLoading |-> FALSE]
       IN /\ auth' = checked
          /\ pageEffects' =
                IF authRoute # "/protected" THEN <<>>
                ELSE IF pageKind = "ProtectedRoute" \/ DepsChanged(pageKind, auth, checked)
                     THEN pageEffects \o RegisteredEffect(pageKind, checked)
                     ELSE pageEffects
    /\ providerEffect' = FALSE
    /\ UNCHANGED <<now, notAuthVars, storage, authRoute, pageKind, lastAuthCall>>

\* the effect of the page runs with the values of the render it closed over
PageEffect ==
    /\ authRoute = "/protected"
    /\ pageEffects # <<>>
    /\ IF Redirects(pageKind, Head(pageEffects))
       THEN authRoute' = "/login" /\ pageEffects' = <<>>
       ELSE authRoute' = authRoute /\ pageEffects' = Tail(pageEffects)
    /\ UNCHANGED <<now, notAuthVars, storage, auth, pageKind, providerEffect,
                   lastAuthCall>>

\* the login page calls login(access_token, refresh_token) and goes to the
\* protected page
Login(token, refreshToken, kind) ==
    /\ authRoute = "/login"
    /\ ~providerEffect
    /\ storage' = LoginStorage(storage, token, refreshToken)
    /\ auth' = [auth EXCEPT !.isAuthenticated = TRUE]
    /\ authRoute' = "/protected"
    /\ pageKind' = kind
    /\ pageEffects' = RegisteredEffect(kind, auth')
    /\ lastAuthCall' = [call |-> "login", before |-> storage]
    /\ UNCHANGED <<now, notAuthVars, providerEffect>>

\* a page calls logout()
Logout ==
    /\ authRoute = "/protected"
    /\ ~providerEffect
    /\ storage' = LogoutStorage(storage)
    /\ auth' = [auth EXCEPT !.isAuthenticated = FALSE]
    /\ authRoute' = "/login"
    /\ pageEffects' = <<>>
    /\ lastAuthCall' = [call |-> "logout", before |-> storage]
    /\ UNCHANGED <<now, notAuthVars, pageKind, providerEffect>>

AuthNext ==
    \/ \E kind \in PageKinds, stored \in StoredByEarlierVisit : LoadPage(kind, stored)
    \/ \E stored \in StoredByEarlierVisit : LoadLoginPage(stored)
    \/ \E kind \in PageKinds : ReloadPage(kind)
    \/ InitialCheck
    \/ PageEffect
    \/ \E token \in AccessTokens, refreshToken \in RefreshTokens, kind \in PageKinds :
          Login(token, refreshToken, kind)
    \/ Logout

SpecAuth == Init /\ [][AuthNext]_vars

(***************************************************************************)
(* The join-group dialog.  The dialog component stays mounted while it is  *)
(* closed, so its state and the lookups it sent outlive a close.           *)
(***************************************************************************)
\* The "join a group" button of the home page: setIsJoinDialogOpen(true).
OpenJoinDialog ==
    /\ ~joinDialog.open
    /\ joinDialog' = [joinDialog EXCEPT !.open = TRUE]
    /\ UNCHANGED <<now, notJoinVars, lookups, lookupsSent, joinRequest>>

\* handleInviteCodeChange; the input is disabled while loading or joining.
InviteCodeChange(value) ==
    /\ joinDialog.open
    /\ ~(joinDialog.loading \/ joinDialog.joining)
    /\ value # joinDialog.inviteCode
    /\ joinDialog' = [joinDialog EXCEPT !.inviteCode = value, !.groupInfo = Null,
                                        !.error = ""]
    /\ UNCHANGED <<now, notJoinVars, lookups, lookupsSent, joinRequest>>

\* handleSearchGroup, from the search button (shown without groupInfo, disabled
\* while loading or with an empty trimmed code) or from Enter in the input.
SearchGroup ==
    /\ joinDialog.open
    /\ joinDialog.groupInfo = Null
    /\ ~joinDialog.loading
    /\ trim(joinDialog.inviteCode) # <<>>
    /\ lookupsSent < MaxLookups
    /\ joinDialog' = [joinDialog EXCEPT !.loading = TRUE, !.error = "",
                                        !.groupInfo = Null]
    /\ lookupsSent' = lookupsSent + 1
    /\ lookups' = lookups \cup {[n |-> lookupsSent + 1,
                                 code |-> trim(joinDialog.inviteCode)]}
    /\ UNCHANGED <<now, notJoinVars, joinRequest>>

\* The rest of handleSearchGroup once api.get settles: the group on success,
\* an error for 404 or for a failed request, and loading = false at the end.
LookupResponds(l, failed) ==
    /\ l \in lookups
    /\ lookups' = lookups \ {l}
    /\ joinDialog' =
          IF failed
          THEN [joinDialog EXCEPT !.error = "lookup failed", !.loading = FALSE]
          ELSE IF GroupOf(l.code) # Null
          THEN [joinDialog EXCEPT !.groupInfo = GroupOf(l.code),
                                  !.loading = FALSE]
          ELSE [joinDialog EXCEPT !.error = "invalid invitation code",
                                  !.loading = FALSE]
    /\ UNCHANGED <<now, notJoinVars, lookupsSent, joinRequest>>

\* handleJoinGroup up to api.post; the join button is shown with groupInfo.
JoinGroup ==
    /\ joinDialog.open
    /\ joinDialog.groupInfo # Null
    /\ ~joinDialog.joining
    /\ joinRequest.state # "sent"
    /\ joinDialog' = [joinDialog EXCEPT !.joining = TRUE, !.error = ""]
    /\ joinRequest' = [state |-> "sent",
                       invitation_code |-> trim(joinDialog.inviteCode),
                       displayed |-> joinDialog.groupInfo]
    /\ UNCHANGED <<now, notJoinVars, lookups, lookupsSent>>

\* The rest of handleJoinGroup: on success the dialog closes and resets, on
\* failure it shows the error; joining = false at the end.
JoinResponds ==
    /\ joinRequest.state = "sent"
    /\ IF GroupOf(joinRequest.invitation_code) # Null
       THEN /\ joinDialog' = [resetState(joinDialog) EXCEPT !.open = FALSE]
            /\ joinRequest' = [joinRequest EXCEPT !.state = "joined"]
       ELSE /\ joinDialog' = [joinDialog EXCEPT !.error = "join failed",
                                                !.joining = FALSE]
            /\ joinRequest' = [joinRequest EXCEPT !.state = "refused"]
    /\ UNCHANGED <<now, notJoinVars, lookups, lookupsSent>>

\* The "search again" button, shown with groupInfo.
SearchAgain ==
    /\ joinDialog.open
    /\ joinDialog.groupInfo # Null
    /\ ~joinDialog.joining
    /\ joinDialog' = [joinDialog EXCEPT !.groupInfo = Null, !.inviteCode = <<>>,
                                        !.error = ""]
    /\ UNCHANGED <<now, notJoinVars, lookups, lookupsSent, joinRequest>>

\* handleOpenChange(false): the dialog's own close (Escape, overlay, close
\* button) at any time, or the back button.
CloseJoinDialog ==
    /\ joinDialog.open
    /\ joinDialog' = [resetState(joinDialog) EXCEPT !.open = FALSE]
    /\ UNCHANGED <<now, notJoinVars, lookups, lookupsSent, joinRequest>>

JoinNext ==
    \/ OpenJoinDialog
    \/ \E value \in InviteCodes : InviteCodeChange(value)
    \/ SearchGroup
    \/ \E l \in lookups, failed \in BOOLEAN : LookupResponds(l, failed)
    \/ JoinGroup
    \/ JoinResponds
    \/ SearchAgain
    \/ CloseJoinDialog

SpecJoin == Init /\ [][JoinNext]_vars

(***************************************************************************)
(* The assistant panel: questions and conversation histories in flight.    *)
(***************************************************************************)
\* openAIAssistant(literature) from the document list, with the session
\* list it loads; the list is behind the dialog while the panel is open
OpenAIAssistantOn(literature) ==
    /\ aiAssistant.selectedLiterature = Null
    /\ aiAssistant' = [aiAssistant EXCEPT !.selectedLiterature = literature,
                                          !.sessions = SessionsOf(literature)]
    /\ UNCHANGED <<now, notDelVars, serverSessions, deletion>>

\* sendAIQuestion(aiQuestion) up to the call of askAI, from the send button
\* or from Enter in the input (disabled while isAIThinking)
PanelSendAIQuestion(question) ==
    /\ aiAssistant.selectedLiterature # Null
    /\ ~SendDisabled(question, isAIThinking)
    /\ asksSent < MaxAsks
    /\ isAIThinking' = TRUE
    /\ asksSent' = asksSent + 1
    /\ asks' = asks \cup
          {[n |-> asksSent + 1, pc |-> "asking",
            literature_id |-> aiAssistant.selectedLiterature,
            session_id |-> ResponseSession(aiAssistant.selectedLiterature,
                                           aiAssistant.currentSessionId),
            turn_index |-> Len(aiAssistant.conversation) + 1]}
    /\ UNCHANGED <<now, notPanelVars, delVars, histories, historiesSent, globalAsk>>

\* askAI settles: the new turn and the session id go into the state and the
\* session list is asked for, or the error is shown and isAIThinking ends
AskAISettles(a, ok) ==
    /\ a \in asks
    /\ a.pc = "asking"
    /\ IF ok
       THEN /\ aiAssistant' =
                  [aiAssistant EXCEPT
                      !.currentSessionId = a.session_id,
                      !.conversation =
                          Append(@, [session_id |-> a.session_id,
                                     turn_index |-> a.turn_index])]
            /\ asks' = (asks \ {a}) \cup {[a EXCEPT !.pc = "reloading"]}
            /\ UNCHANGED isAIThinking
       ELSE /\ asks' = asks \ {a}
            /\ isAIThinking' = FALSE
            /\ UNCHANGED aiAssistant
    /\ UNCHANGED <<now, notPanelVars, serverSessions, deletion, asksSent,
                   histories, historiesSent, globalAsk>>

\* getAISessions of sendAIQuestion settles, then finally: isAIThinking = false
AskReloadSettles(a, ok) ==
    /\ a \in asks
    /\ a.pc = "reloading"
    /\ aiAssistant' =
          IF ok
          THEN [aiAssistant EXCEPT
                   !.sessions = SessionsOf(a.literature_id) \cup {a.session_id}]
          ELSE aiAssistant
    /\ asks' = asks \ {a}
    /\ isAIThinking' = FALSE
    /\ UNCHANGED <<now, notPanelVars, serverSessions, deletion, asksSent,
                   histories, historiesSent, globalAsk>>

\* loadConversationHistory(sessionId) up to the call of getConversationHistory
PanelLoadConversationHistory(sessionId) ==
    /\ aiAssistant.selectedLiterature # Null
    /\ sessionId \in aiAssistant.sessions
    /\ historiesSent < MaxHistoryLoads
    /\ historiesSent' = historiesSent + 1
    /\ histories' = histories \cup {[n |-> historiesSent + 1, sessionId |-> sessionId]}
    /\ UNCHANGED <<now, notPanelVars, delVars, isAIThinking, asks, asksSent, globalAsk>>

\* getConversationHistory settles
HistorySettles(h, ok) ==
    /\ h \in histories
    /\ histories' = histories \ {h}
    /\ aiAssistant' =
          IF ok
          THEN [aiAssistant EXCEPT !.currentSessionId = h.sessionId,
                                   !.conversation = StoredTurns(h.sessionId)]
          ELSE aiAssistant
    /\ UNCHANGED <<now, notPanelVars, serverSessions, deletion, isAIThinking,
                   asks, asksSent, historiesSent, globalAsk>>

\* handleGlobalAIQuestion up to the call of askMultipleLiterature; its input
\* and button are on the page behind the dialog, disabled while isAIThinking
GlobalAIQuestion(question) ==
    /\ aiAssistant.selectedLiterature = Null
    /\ ~SendDisabled(question, isAIThinking)
    /\ isAIThinking' = TRUE
    /\ globalAsk' = TRUE
    /\ UNCHANGED <<now, notPanelVars, delVars, asks, asksSent, histories, historiesSent>>

\* askMultipleLiterature settles, then finally: isAIThinking = false
GlobalSettles ==
    /\ globalAsk
    /\ globalAsk' = FALSE
    /\ isAIThinking' = FALSE
    /\ UNCHANGED <<now, notPanelVars, delVars, asks, asksSent, histories, historiesSent>>

AskSettles ==
    \E a \in asks, ok \in BOOLEAN : AskAISettles(a, ok) \/ AskReloadSettles(a, ok)

AskNext ==
    \/ \E literature \in Documents : OpenAIAssistantOn(literature)
    \/ CloseAIAssistant
    \/ \E question \in AiQuestions : PanelSendAIQuestion(question)
    \/ \E a \in asks, ok \in BOOLEAN : AskAISettles(a, ok)
    \/ \E a \in asks, ok \in BOOLEAN : AskReloadSettles(a, ok)
    \/ \E s \in StoredSessions \cup {"s3"} : PanelLoadConversationHistory(s)
    \/ \E h \in histories, ok \in BOOLEAN : HistorySettles(h, ok)
    \/ \E question \in AiQuestions : GlobalAIQuestion(question)
    \/ GlobalSettles

SpecAsk == Init /\ [][AskNext]_vars

\* every request the page sent is answered or fails in the end
SpecAskLive ==
    SpecAsk /\ WF_vars(AskSettles) /\ WF_vars(GlobalSettles)

(***************************************************************************)
(* Properties of the circuit breaker.                                      *)
(***************************************************************************)

\* C1: a breaker is Closed exactly while fewer than failure_threshold
\* consecutive failures (reset by any success) have been recorded, and the
\* step that takes it from Closed to Open is the one at which that count
\* reaches exactly failure_threshold.
C1_OpensExactlyAtThreshold ==
    /\ [](\A d \in Deps : cb[d].state = "CLOSED" <=> consec[d] < failure_threshold)
    /\ [][\A d \in Deps :
            (cb[d].state = "CLOSED" /\ cb'[d].state = "OPEN")
                => (consec[d] = failure_threshold - 1
                    /\ consec'[d] = failure_threshold)]_vars

\* a breaker has just opened on its failure_threshold-th consecutive failure
C1_Witness ==
    \E d \in Deps : /\ cb[d].state = "OPEN"
                     /\ consec[d] = failure_threshold
                     /\ openedAt[d] = now

\* C2: while a breaker is Open and recovery_timeout has not elapsed since it
\* opened, no step lets a call into the dependency: every call() is rejected.
C2_OpenRejectsWithoutInvoking ==
    [][\A d \in Deps :
        (cb[d].state = "OPEN" /\ now - openedAt[d] < recovery_timeout)
            => /\ \A k \in Kinds : inflight'[d][k] <= inflight[d][k]
               /\ lastAdmission'[d] \in {lastAdmission[d], "reject"}]_vars

\* the generation breaker is Open after failure_threshold consecutive
\* failures, the timeout has not elapsed, and the next call was rejected
\* while nothing is inside the generation service
C2_Witness ==
    /\ cb["generation"].state = "OPEN"
    /\ consec["generation"] = failure_threshold
    /\ now - openedAt["generation"] < recovery_timeout
    /\ lastAdmission["generation"] = "reject"
    /\ \A k \in Kinds : inflight["generation"][k] = 0

\* C3: a breaker leaves Open only for HalfOpen, and only when at least
\* recovery_timeout has elapsed since it last entered Open.
C3_LeavesOpenOnlyAfterTimeout ==
    [][\A d \in Deps :
        (cb[d].state = "OPEN" /\ cb'[d].state # "OPEN")
            => /\ cb'[d].state = "HALF_OPEN"
               /\ now - openedAt[d] >= recovery_timeout]_vars

\* a breaker that reopened after a failed trial is HalfOpen again
C3_Witness ==
    \E d \in Deps : /\ cb[d].state = "HALF_OPEN"
                     /\ consec[d] > failure_threshold
                     /\ now - openedAt[d] >= recovery_timeout

\* C4: in HalfOpen the trial's outcome decides: its success closes the
\* breaker with the counter at zero, its failure reopens the breaker and
\* restarts the recovery timeout at that moment; nothing else changes the state.
C4_TrialDecides ==
    [][\A d \in Deps :
        cb[d].state = "HALF_OPEN"
            => /\ consec'[d] = 0
                    => cb'[d].state = "CLOSED" /\ cb'[d].failure_count = 0
               /\ consec'[d] > consec[d]
                    => /\ cb'[d].state = "OPEN"
                       /\ cb'[d].last_failure_time = now
                       /\ Admission(cb'[d], now) = "reject"
               /\ consec'[d] = consec[d]
                    => cb'[d].state = "HALF_OPEN"]_vars

\* one breaker was closed by a successful trial and the other was reopened
\* by a failed trial
C4_Witness ==
    /\ cb["embedding"].state = "CLOSED"
    /\ cb["embedding"].failure_count = 0
    /\ openedAt["embedding"] # NoTime
    /\ cb["generation"].state = "OPEN"
    /\ consec["generation"] = failure_threshold + 1
    /\ openedAt["generation"] = now

\* C5: at most one trial call is inside a dependency at any time, and while
\* a breaker is HalfOpen no further call is let into the dependency.
C5_SingleTrial ==
    /\ [](\A d \in Deps : inflight[d]["trial"] <= 1)
    /\ [][\A d \in Deps :
            cb[d].state = "HALF_OPEN"
                => /\ \A k \in Kinds : inflight'[d][k] <= inflight[d][k]
                   /\ lastAdmission'[d] \in {lastAdmission[d], "reject"}]_vars

\* a caller was rejected while another caller's trial is in flight
C5_Witness ==
    \E d \in Deps : /\ cb[d].state = "HALF_OPEN"
                     /\ inflight[d]["trial"] = 1
                     /\ lastAdmission[d] = "reject"

\* C6: the counter equals the number of failures recorded since the last
\* recorded success, and a Closed breaker never has its counter at or above
\* failure_threshold.
C6_CounterExact ==
    \A d \in Deps :
        /\ cb[d].failure_count = consec[d]
        /\ cb[d].state = "CLOSED" => cb[d].failure_count < failure_threshold

\* failures were recorded on a Closed breaker while other calls admitted
\* together with them are still inside the dependency
C6_Witness ==
    \E d \in Deps : /\ cb[d].state = "CLOSED"
                     /\ consec[d] = failure_threshold - 1
                     /\ inflight[d]["pass"] = NumCallers - 1

ContentTier(resp) ==
    IF resp.answer = ApologyText THEN "apology"
    ELSE IF resp.answer = RawSourcesText THEN "raw_sources"
    ELSE "cached"

GetChunks == context_chunks(lastGet.context)
SetChunks == context_chunks(lastSet.context)
LastGetKey == RequestKey(lastGet.question, lastGet.literature_id, GetChunks)

\* a get_answer followed a set_answer for the same question and document
SameQuestionAndDocument ==
    /\ lastSet.valid /\ lastGet.valid
    /\ lastGet.question = lastSet.question
    /\ lastGet.literature_id = lastSet.literature_id

\* C9: two requests with the same question and document whose contexts
\* hold different chunk identifiers have different answer-cache keys, and a
\* get for one never returns the answer stored for the other's chunks.
C9_DistinctContextsDistinctKeys ==
    (SameQuestionAndDocument /\ ChunkIds(GetChunks) # ChunkIds(SetChunks))
        => /\ LastGetKey # LastSetKey
           /\ lastGet.value # None => lastGet.value.sources = ChunkIds(GetChunks)

\* the answer_data handed to the latest set_answer
StoredData == AnswerData(GeneratedText(lastSet.question, SetChunks), SetChunks)

\* a get_answer followed a set_answer of the identical triple, with no
\* invalidate, clear or expiry between them (no other set lies between them)
RoundTrip ==
    /\ SameQuestionAndDocument
    /\ lastGet.context = lastSet.context
    /\ lastSet.intact
    /\ lastGet.at < lastSet.at + answer_cache_ttl

\* a hit on the request of the hit before it, with no set between them
RepeatedHit ==
    /\ lastGet.valid /\ lastGet'.valid /\ lastGet' # lastGet
    /\ lastGet.value # None /\ lastGet'.value # None
    /\ lastGet'.question = lastGet.question
    /\ lastGet'.literature_id = lastGet.literature_id
    /\ lastGet'.context = lastGet.context

\* C10 as stated: the get of a round trip returns the value that was given
\* to set, and a repeated get returns the same value as the get before it.
C10_RoundTripSameValue ==
    /\ [](RoundTrip => lastGet.value = StoredData)
    /\ [][RepeatedHit => lastGet'.value = lastGet.value]_vars

\* the answer, sources and confidence of a structured answer
Content(v) == [answer |-> v.answer, sources |-> v.sources, confidence |-> v.confidence]

\* C10 amended: the get of a round trip is a hit that returns the answer,
\* sources and confidence given to set; its metadata is the stored metadata
\* with cached_at (time of the set), context_hash, cache_hit = true and
\* retrieved_at (time of that get) added; repeated gets agree in everything
\* but retrieved_at.
C10_RoundTripSameContent ==
    /\ [](RoundTrip =>
            /\ lastGet.value # None
            /\ Content(lastGet.value) = Content(StoredData)
            /\ lastGet.value.metadata =
                  [processing_time |-> StoredData.metadata.processing_time,
                   cached_at       |-> lastSet.at,
                   context_hash    |-> context_hash(SetChunks),
                   cache_hit       |-> TRUE,
                   retrieved_at    |-> lastGet.at])
    /\ [][RepeatedHit =>
            /\ Content(lastGet'.value) = Content(lastGet.value)
            /\ [lastGet'.value.metadata EXCEPT !.retrieved_at = 0]
                 = [lastGet.value.metadata EXCEPT !.retrieved_at = 0]]_vars

\* the second get of a round trip, later than the set, was a hit
C10_Witness ==
    /\ RoundTrip
    /\ lastGet.value # None
    /\ lastGet.at > lastSet.at
    /\ stats.hits = 2

(***************************************************************************)
(* Embedding cache key and the embedding model (C11).                      *)
(***************************************************************************)
\* C11: a vector that generate_embedding returns, from the cache or from the
\* service, was computed by the embedding model in use at the time of the
\* call: a vector cached under one model is never returned after the model
\* was switched.
C11_NoVectorOfAnotherModel ==
    (lastEmbedding.valid /\ lastEmbedding.embedding # None)
        => lastEmbedding.embedding.model = lastEmbedding.model

(***************************************************************************)
(* Capacity and eviction order of a backend (C12).                         *)
(***************************************************************************)
\* the keys of mem that have not expired
MemLiveKeys == {mem[i].key : i \in {j \in 1..Len(mem) : now < mem[j].expires}}

\* the keys that have not expired, in the order of their latest use
MemLiveUsed ==
    LET live(k) == k \in MemLiveKeys IN SelectSeq(mem_used, live)

\* a set evicts nothing but the least recently used live entry
EvictsLeastRecentlyUsed ==
    (mem_op' # mem_op /\ mem_op'.op = "set") =>
        \A e \in mem_op'.evicted : MemLiveUsed # <<>> /\ e.key = MemLiveUsed[1]

\* C12: after any sequence of get, set, delete and clear the backend never
\* holds more entries than its maximum size, and the entry a set removes
\* from a full cache is the least recently used one, a get hit and a set
\* being uses.
C12_BoundedAndLeastRecentlyUsed ==
    /\ [](Len(mem) <= MemMaxSize)
    /\ [][EvictsLeastRecentlyUsed]_vars

\* a set evicted an entry that was written after one that is still held,
\* because the older one was read in between
C12_Witness ==
    /\ mem_op.op = "set"
    /\ Len(mem) = MemMaxSize
    /\ lastMemGet.valid /\ lastMemGet.value # None
    /\ \E e \in mem_op.evicted : \E i \in 1..Len(mem) :
          /\ mem[i].key = lastMemGet.key
          /\ mem[i].value.at < e.value.at
          /\ e.value.at <= lastMemGet.at

(***************************************************************************)
(* Time to live of an entry (C13).                                         *)
(***************************************************************************)
\* the ttl a set asked for: its argument, or the ttl of the cache
AskedTtl(ttl) == IF ttl = NoTtl THEN answer_cache_ttl ELSE ttl[1]

\* C13: a get returns the entry of the latest set of its key only while less
\* than the ttl given to that set has elapsed since the write.
C13_TtlOfSetGoverns ==
    (/\ lastMemGet.valid /\ lastMemSet.valid
     /\ lastMemGet.key = lastMemSet.key
     /\ lastMemGet.value = MemValue(lastMemSet.key, lastMemSet.at))
        => lastMemGet.at - lastMemSet.at < AskedTtl(lastMemSet.ttl)

(***************************************************************************)
(* The context window and its budget (C14, C15, C16).                      *)
(***************************************************************************)
\* a window was returned
Returned == window.pc = "done"

\* the turns the window was built from
WindowTurns == SubSeq(history, 1, window.n)

IsIteration ==
    /\ window.pc = "compressing"
    /\ window'.pc # "none"
    /\ window'.iterations = window.iterations + 1

IterationRetainsOneLess ==
    IsIteration =>
        /\ Len(window'.recentTurns) = Len(window.recentTurns) - 1
        /\ window'.iterations <= window'.n

EstimateRetaining(k) ==
    EstimateTokens(RecentOf(history, window.n, k),
                   BuildSummary(OlderOf(history, window.n, k)))

\* the budget fits k turns verbatim and no more
FitsExactly(k) ==
    /\ EstimateRetaining(k) <= window.budget
    /\ \A j \in (k + 1)..window.n : EstimateRetaining(j) > window.budget

\* C16: recentTurns is a contiguous suffix of the session's turns in their
\* order, topicSummary is non-empty whenever a turn is left out, and with 12
\* turns and a budget that fits 6 turns verbatim the window returned holds
\* exactly the 6 most recent turns.
C16_RecentSuffixAndSummary ==
    window.pc # "none" =>
        /\ Len(window.recentTurns) <= window.n
        /\ window.recentTurns = RecentOf(history, window.n, Len(window.recentTurns))
        /\ Len(window.recentTurns) < window.n => window.topicSummary # <<>>
        /\ (Returned /\ window.n = 12 /\ FitsExactly(6))
              => window.recentTurns = RecentOf(history, 12, 6)

\* 12 turns, a budget that fits 6 of them: the 6 most recent and a summary
C16_Witness ==
    /\ Returned
    /\ window.n = 12
    /\ FitsExactly(6)
    /\ Len(window.recentTurns) = 6
    /\ window.recentTurns[1].index = 7
    /\ window.topicSummary # <<>>

(***************************************************************************)
(* Turn indices of a session (C17).                                        *)
(***************************************************************************)
\* the turns created for session s: those of the store and those the
\* clients hold, each with its identifier and its index
TurnsCreated(s) ==
    {[turn_id |-> sessions[s][i].turn_id, index |-> sessions[s][i].index] :
        i \in 1..Len(sessions[s])}
    \cup
    UNION {{[turn_id |-> clients[c].conversation[i].turn_id,
             index |-> clients[c].conversation[i].turn_index] :
               i \in 1..Len(clients[c].conversation)} : c \in Clients}

\* C17: the turns created for a session carry distinct consecutive indices,
\* no index twice and none skipped, turnCount is the number of turns, and an
\* appendTurn waits for calls on its own session only.
C17_DistinctConsecutiveIndices ==
    \A s \in SessionIds :
        /\ \A i \in 1..Len(sessions[s]) : sessions[s][i].index = i
        /\ turnCount[s] = Len(sessions[s])
        /\ \A x, y \in {t \in TurnsCreated(s) : t.turn_id[1] = s} :
              x.index = y.index => x.turn_id = y.turn_id
        /\ \A c \in Clients :
              (clients[c].call.pc = "sent"
                   /\ TargetSession(clients[c].call.session_id) = s
                   /\ lock[s] # "free")
                 => clients[lock[s]].call.session_id = s

(***************************************************************************)
(* Retrieval: scope, count and fusion (C18, C19, C20).                     *)
(***************************************************************************)
\* retrieve_chunks has returned
Retrieved == retrieval.pc = "done"

MergedChunks == {retrieval.merged_results[i].chunk : i \in 1..Len(retrieval.merged_results)}

\* the fused score of a chunk of the fused list
Fused(chunk) ==
    retrieval.merged_results[CHOOSE i \in 1..Len(retrieval.merged_results) :
                                 retrieval.merged_results[i].chunk = chunk].fusedScore

InVector(chunk) == chunk \in ChunksOf(retrieval.vector_results)
InKeyword(chunk) == chunk \in ChunksOf(retrieval.keyword_results)

\* the fused list is the union of the two result sets, each chunk once
FusedIsUnion ==
    /\ MergedChunks = ChunksOf(retrieval.vector_results)
                          \cup ChunksOf(retrieval.keyword_results)
    /\ Len(retrieval.merged_results) = Cardinality(MergedChunks)

\* the chunk of lit-1 with an ordinal
Lit1(n) == [literature_id |-> "lit-1", chunk_index |-> n]

\* vector results [2,1] and keyword results [1,3]
ScenarioOne ==
    /\ Len(retrieval.vector_results) = 2
    /\ retrieval.vector_results[1].chunk = Lit1(2)
    /\ retrieval.vector_results[2].chunk = Lit1(1)
    /\ Len(retrieval.keyword_results) = 2
    /\ retrieval.keyword_results[1].chunk = Lit1(1)
    /\ retrieval.keyword_results[2].chunk = Lit1(3)

RECURSIVE ChunkTokens(_)
ChunkTokens(chunks) ==
    IF chunks = <<>> THEN 0
    ELSE estimate_tokens(Head(chunks).text) + ChunkTokens(Tail(chunks))

\* no candidate fits next to the fixed part of the prompt
NoCandidateFits ==
    \A i \in 1..Len(built.context_chunks) :
        base_prompt_tokens + estimate_tokens(built.context_chunks[i].text)
            > built.max_tokens

\* C22: when no candidate chunk fits the token budget the call fails with
\* BudgetExceededError; a call never returns an empty chunk selection.
C22_FailsWhenNothingFits ==
    built.valid
        => /\ NoCandidateFits => built.raised = "BudgetExceededError"
           /\ built.raised = "none" => built.selected_chunks # <<>>

\* the positions of the candidates left out of the selection
LeftOut ==
    {i \in 1..Len(built.context_chunks) :
        \A k \in 1..Len(built.selected_chunks) :
            built.selected_chunks[k] # built.context_chunks[i]}

\* the candidate left out that comes first in descending score order
NextLeftOut ==
    CHOOSE i \in LeftOut :
        \A j \in LeftOut :
            \/ built.context_chunks[j].relevance_score
                  < built.context_chunks[i].relevance_score
            \/ /\ built.context_chunks[j].relevance_score
                     = built.context_chunks[i].relevance_score
               /\ i <= j

\* the selection is whole candidates in descending score order, a prefix of
\* that order, and it ends at the first chunk that would overflow
SelectionIsPrefixInScoreOrder ==
    LET sel == built.selected_chunks
        cand == built.context_chunks
    IN /\ \A k \in 1..Len(sel) : \E i \in 1..Len(cand) : sel[k] = cand[i]
       /\ \A k, l \in 1..Len(sel) : k # l => sel[k] # sel[l]
       /\ \A k, l \in 1..Len(sel) :
             k < l => sel[k].relevance_score >= sel[l].relevance_score
       /\ \A k \in 1..Len(sel), i \in LeftOut :
             cand[i].relevance_score <= sel[k].relevance_score
       /\ LeftOut # {} =>
             base_prompt_tokens + ChunkTokens(sel)
                 + estimate_tokens(cand[NextLeftOut].text) > built.max_tokens

\* the fixed part and the selected chunks are within max_tokens
SelectionWithinMaxTokens ==
    base_prompt_tokens + ChunkTokens(built.selected_chunks) <= built.max_tokens

\* C26: the selection is a prefix of the candidates in descending score
\* order, made of whole chunks, ending at the first chunk that would
\* overflow, and the reserved tokens plus the tokens of the selected chunks
\* never exceed max_tokens.
C26_GreedyPrefixWithinMaxTokens ==
    built.valid => SelectionIsPrefixInScoreOrder /\ SelectionWithinMaxTokens

\* the part of C26 that every call satisfies
PrefixAndWithinWhenFixedPartFits ==
    built.valid
        => /\ SelectionIsPrefixInScoreOrder
           /\ built.max_tokens >= base_prompt_tokens => SelectionWithinMaxTokens

(***************************************************************************)
(* Properties of the question endpoint.                                    *)
(***************************************************************************)
\* the question is empty or over the length limit
Malformed(question) == question.len = 0 \/ question.len > max_length

\* C23: a request whose question is empty or over the length limit is
\* rejected with ValidationError with no embedding, history, retrieval or
\* generation work started for it, and it is sent once only.
C23_MalformedRejectedBeforeWork ==
    qa.pc # "idle" /\ Malformed(qa.question)
        => /\ qa.pc = "rejected"
           /\ qa.error = "ValidationError"
           /\ qa.embedding = "none"
           /\ qa.history = "none"
           /\ qa.events = <<>>
           /\ qa.attempts = 1

\* an empty question was rejected
C23_Witness ==
    /\ qa.pc = "rejected"
    /\ qa.question.len = 0
    /\ ~qa.question.unsafe
    /\ qa.error = "ValidationError"

\* every e2 among the events has an e1 before it
Precedes(e1, e2) ==
    \A j \in 1..Len(qa.events) :
        qa.events[j] = e2 => \E i \in 1..(j - 1) : qa.events[i] = e1

\* C27: within one request, retrieval starts only after the embedding is
\* complete, generation starts only after the prompt is assembled, which
\* is after retrieval returned its chunks and the history was loaded; the
\* embedding and the history loading are both started before either ends.
C27_StageOrder ==
    /\ Precedes("embedding_done", "retrieval_started")
    /\ Precedes("prompt_assembled", "generation_started")
    /\ Precedes("retrieval_done", "prompt_assembled")
    /\ Precedes("history_done", "prompt_assembled")
    /\ Precedes("history_started", "embedding_done")
    /\ Precedes("embedding_started", "history_done")

\* a request was answered whose history was loaded before its embedding
\* was complete
C27_Witness ==
    /\ qa.pc = "answered"
    /\ \E i, j \in 1..Len(qa.events) :
          /\ i < j
          /\ qa.events[i] = "history_done"
          /\ qa.events[j] = "embedding_done"

\* a request was answered whose embedding was complete before its history
\* was loaded
C27_WitnessEmbeddingFirst ==
    /\ qa.pc = "answered"
    /\ \E i, j \in 1..Len(qa.events) :
          /\ i < j
          /\ qa.events[i] = "embedding_done"
          /\ qa.events[j] = "history_done"

(***************************************************************************)
(* Properties of answer post-processing.                                   *)
(***************************************************************************)
\* the chunks of the candidate list of the answer, and their identifiers
CandidateSet == {cited.candidates[i] : i \in 1..Len(cited.candidates)}

CandidateIds == {<<c.literature_id, c.chunk_index>> : c \in CandidateSet}

IsSubmit ==
    /\ ~regLoading
    /\ regPage = "register"
    /\ formData' = formData
    /\ posted' # posted \/ regError' # regError

\* C25: a submit sends the form data to POST /api/auth/register only when
\* the username has 3 to 50 characters, the phone number is 11 digits, the
\* password has at least 8 characters and the confirmation equals it; a
\* submit of other form data shows an error and sends nothing.
C25_SendsOnlyValidForms ==
    [][ IsSubmit =>
          IF RegisterRequestValid(formData)
          THEN posted' = Append(posted, formData)
          ELSE posted' = posted /\ regError' # "" ]_vars

(***************************************************************************)
(* Properties of the cache statistics.                                     *)
(***************************************************************************)
\* the step is a get on the answer cache, on the embedding cache
IsAnswerGet == lastGet' # lastGet /\ lastGet'.valid

IsEmbeddingGet == lastEmbedding' # lastEmbedding

\* the hit and miss counters reported for the embedding cache
EmbeddingCounters ==
    <<get_cache_stats.embedding_cache.hits, get_cache_stats.embedding_cache.misses>>

\* C28: a get on a cache increments exactly one of the hit and miss
\* counters of that cache and changes the counters of no other cache, so
\* a get on the answer cache leaves the counters reported for the
\* embedding cache as they are; the hit rate reported is
\* hits / (hits + misses), and 0 when there was no lookup.
C28_PerCacheStatistics ==
    [][ /\ IsAnswerGet => EmbeddingCounters' = EmbeddingCounters
        /\ IsEmbeddingGet =>
              \/ EmbeddingCounters' = <<EmbeddingCounters[1] + 1, EmbeddingCounters[2]>>
              \/ EmbeddingCounters' = <<EmbeddingCounters[1], EmbeddingCounters[2] + 1>>
        /\ LET r == get_cache_stats'.embedding_cache
           IN r.hit_rate = IF r.hits + r.misses > 0
                           THEN Rate(r.hits, r.hits + r.misses)
                           ELSE Rate(0, 1) ]_vars

\* the parts of C28 that every step satisfies: each get counts one hit or
\* one miss in the statistics of the CacheManager, and the rate reported
\* is computed from them
GetCountsOnceInSharedStatistics ==
    [][ /\ IsAnswerGet \/ IsEmbeddingGet =>
              \/ stats' = [stats EXCEPT !.hits = @ + 1]
              \/ stats' = [stats EXCEPT !.misses = @ + 1]
              \/ stats' = [stats EXCEPT !.misses = @ + 1, !.sets = @ + 1]
        /\ LET r == get_cache_stats'.embedding_cache
           IN r.hit_rate = IF r.hits + r.misses > 0
                           THEN Rate(r.hits, r.hits + r.misses)
                           ELSE Rate(0, 1) ]_vars

(***************************************************************************)
(* Properties of the useApi hook.                                          *)
(***************************************************************************)
\* C29: on entry of an execute call the status becomes 'loading' and the
\* error null; when apiFunction resolves, data is the resolved value and
\* the status 'success'; when it rejects, error is the rejection, the
\* status 'error', data keeps its value and execute throws the rejection;
\* isLoading is true exactly when the status is 'loading'.
C29_ExecuteSetsState ==
    [][ /\ \A c \in ExecuteCalls :
            /\ executions[c].pc = "none" /\ executions'[c].pc = "awaiting"
                  => /\ api'.status = "loading"
                     /\ api'.error = Null
                     /\ api'.data = api.data
            /\ executions[c].pc = "awaiting" /\ executions'[c].pc = "done"
                  => IF executions'[c].settled \in ApiResponses
                     THEN /\ api'.data = executions'[c].settled
                          /\ api'.status = "success"
                          /\ executions'[c].ended = "returned"
                          /\ executions'[c].with = executions'[c].settled
                     ELSE /\ api'.error = executions'[c].settled
                          /\ api'.status = "error"
                          /\ api'.data = api.data
                          /\ executions'[c].ended = "threw"
                          /\ executions'[c].with = executions'[c].settled
        /\ isLoading' <=> api'.status = "loading" ]_vars

\* after one call resolved, another was rejected: the error is set and the
\* data is still the value of the first
C29_Witness ==
    /\ api.status = "error"
    /\ api.error \in ApiErrors
    /\ api.data \in ApiResponses
    /\ \E c \in ExecuteCalls :
          executions[c].ended = "threw" /\ executions[c].with = api.error

\* the call of execute that was made last
StartedLast(c) ==
    /\ executions[c].pc # "none"
    /\ \A d \in ExecuteCalls : executions[d].started <= executions[c].started

InFlight == {c \in ExecuteCalls : executions[c].pc = "awaiting"}

\* C34: when calls of execute overlap, isLoading is true while a call is in
\* flight, and once all have settled the data, error and status are those
\* of the call started last: its response with 'success', or its rejection
\* with 'error'.
C34_LastStartedCallWins ==
    /\ InFlight # {} => isLoading
    /\ InFlight = {} =>
          \A c \in ExecuteCalls : StartedLast(c) =>
              IF executions[c].ended = "returned"
              THEN api.status = "success" /\ api.data = executions[c].with
              ELSE api.status = "error" /\ api.error = executions[c].with

(***************************************************************************)
(* Properties of the assistant panel.                                      *)
(***************************************************************************)
\* the step ends a deleteConversation call whose session the server deleted
DeletionEnds ==
    /\ deletion.pc # "done"
    /\ deletion'.pc = "done"
    /\ deletion'.deleted

\* C30: when a deleteConversation call ends after the server deleted the
\* session, the state has currentSessionId = null and an empty
\* conversation if the session was the open one, and the same
\* currentSessionId and conversation if it was not; also when the reload
\* of the session list failed.
C30_DeletedOpenSessionIsClosed ==
    [][ DeletionEnds =>
          IF aiAssistant.currentSessionId = deletion.sessionId
          THEN /\ aiAssistant'.currentSessionId = Null
               /\ aiAssistant'.conversation = <<>>
          ELSE /\ aiAssistant'.currentSessionId = aiAssistant.currentSessionId
               /\ aiAssistant'.conversation = aiAssistant.conversation ]_vars

\* the part of C30 that every call satisfies: the claim for the calls
\* whose reload of the session list succeeded
ClosedWhenReloadSucceeds ==
    [][ DeletionEnds /\ deletion'.reloaded = "yes" =>
          IF aiAssistant.currentSessionId = deletion.sessionId
          THEN /\ aiAssistant'.currentSessionId = Null
               /\ aiAssistant'.conversation = <<>>
          ELSE /\ aiAssistant'.currentSessionId = aiAssistant.currentSessionId
               /\ aiAssistant'.conversation = aiAssistant.conversation ]_vars

(***************************************************************************)
(* Properties of AuthProvider and the protected pages.                     *)
(***************************************************************************)
\* C31: once the initial check is done (isLoading is false),
\* isAuthenticated is true exactly when localStorage holds a 'token' item,
\* and after logout it holds neither 'token' nor 'refresh_token'.
C31_AuthenticatedIffTokenStored ==
    /\ authRoute # "unloaded" /\ ~auth.isLoading
          => (auth.isAuthenticated <=> storage.token # Null)
    /\ lastAuthCall.call = "logout"
          => storage.token = Null /\ storage.refresh_token = Null

\* a logout while localStorage held both tokens
C31_Witness ==
    /\ lastAuthCall.call = "logout"
    /\ lastAuthCall.before.token # Null
    /\ lastAuthCall.before.refresh_token # Null
    /\ ~auth.isLoading
    /\ ~auth.isAuthenticated
    /\ storage = NoStorage
    /\ authRoute = "/login"

\* C32: a user is sent to /login only when localStorage holds no token: a
\* page does not act on the isAuthenticated = false of the first render.
C32_TokenHolderNotSentToLogin ==
    [][ authRoute = "/protected" /\ authRoute' = "/login"
          => storage'.token = Null ]_vars

(***************************************************************************)
(* Properties of the join-group dialog.                                    *)
(***************************************************************************)

\* C33: whenever groupInfo is set it is the group of the current trimmed
\* invite code, and a join request carries the code of the group that was
\* displayed when it was sent.
C33_GroupInfoIsForCurrentCode ==
    /\ joinDialog.groupInfo # Null
          => joinDialog.groupInfo = GroupOf(trim(joinDialog.inviteCode))
    /\ joinRequest.state # "none"
          => GroupOf(joinRequest.invitation_code) = joinRequest.displayed

(***************************************************************************)
(* Properties of the questions of the assistant panel.                     *)
(***************************************************************************)

\* C35: the current session and every turn of the conversation belong to
\* the document that is selected.
C35_ConversationOfSelectedDocument ==
    /\ aiAssistant.currentSessionId # Null
          => DocumentOf(aiAssistant.currentSessionId) = aiAssistant.selectedLiterature
    /\ \A i \in 1..Len(aiAssistant.conversation) :
          DocumentOf(aiAssistant.conversation[i].session_id)
              = aiAssistant.selectedLiterature

\* C36: at most one askAI request is in flight; while isAIThinking is true
\* no question is sent; and isAIThinking, once true, becomes false again.
C36_OneQuestionAtATime ==
    /\ [](Cardinality(asks) <= 1)
    /\ [][isAIThinking => asksSent' = asksSent /\ (globalAsk' => globalAsk)]_vars
    /\ [](isAIThinking => <>(~isAIThinking))

\* both questions were asked, one after the other, and both have finished
C36_Witness ==
    /\ asksSent = MaxAsks
    /\ asks = {}
    /\ ~isAIThinking
    /\ Len(aiAssistant.conversation) >= 1

====
